---- MODULE Spec2Model ----
(***************************************************************************)
(* A* grid pathfinding (package algo): Node, Grid, heuristics, the         *)
(* PriorityQueue built on container/heap, and AStar.FindPath.              *)
(*                                                                         *)
(* float64 costs are kept in fixed point, one unit = 10^-6, so that 1.0 is *)
(* 1000000 and the diagonal base cost 1.414 is 1414000.  Node objects live *)
(* in the store `node`, keyed by node identity; the grid's node for cell   *)
(* (x, y) has identity <<x, y>>.                                           *)
(***************************************************************************)
EXTENDS Integers, Sequences, FiniteSets, TLC

\* ---------------------------------------------------------------- bounds
MaxW == 3
MaxH == 2
MaxEdits == 2
TerrainW == 4
TerrainH == 2
MaxTerrainEdits == 1
ReuseW == 2
ReuseH == 2
CornerW == 5
CornerH == 5
CornerEdits == 1
SharedW == 3
SharedH == 1
SharedEdits == 1
QueueCells == 3
MaxCalls == 4
GridW == 3
GridH == 3
GridEdits == 1
CellsW == 2
CellsH == 1
CellEdits == 2
ResetW == 2
ResetH == 1
ResetEdits == 2
EstW == 3
EstH == 2
EstEdits == 1
DijkstraW == 3
DijkstraH == 2
DijkstraEdits == 1
HeurRange == 1
EarlyW == 3
EarlyH == 1
EarlyEdits == 1
ForeignW == 2
ForeignH == 1
ForeignEdits == 1

\* ------------------------------------------------------ program constants
FourWay == 0
EightWay == 1
StraightBase == 1000000
DiagonalBase == 1414000
DefaultCost == 1
straightCost == 1000000
diagonalCost == 1414213

NilNode == <<"nil">>
NilGrid == "nilgrid"
TheGrid == "grid"
NilHeuristic == "nil"
HeuristicFuncs == {"Manhattan", "EuclideanSquared", "Diagonal", "DiagonalWithCost", "Zero"}

ErrNone == "none"
ErrInvalidInput == "invalid input"
ErrBlocked == "obstacle endpoint"
ErrNoPath == "no path found"
ErrOutOfBounds == "out of bounds"
ErrDimensions == "grid dimensions must be positive"

VARIABLES
    Width, Height, MovementType,   \* Grid
    node,                          \* the Node objects, by identity
    grid, heuristic,               \* AStar.grid, AStar.heuristic
    openSet,                       \* AStar.openSet: [nodes, nodeIndex]
    closedSet,                     \* AStar.closedSet
    pc, start, goal,               \* position of the running FindPath call and its arguments
    current,                       \* the node last extracted by the main loop
    retPath, retErr,               \* what FindPath returned
    gridErr,                       \* what the last SetObstacle / ClearObstacle returned
    edits,                         \* number of SetObstacle / ClearObstacle calls so far
    astar2,                        \* a second AStar configured with the same Grid
    call,                          \* the last direct call on the Grid or PriorityQueue and its result
    calls,                         \* number of direct calls so far
    queued                         \* positions pushed and neither popped nor cleared since

vars == <<Width, Height, MovementType, node, grid, heuristic, openSet, closedSet,
          pc, start, goal, current, retPath, retErr, gridErr, edits,
          astar2, call, calls, queued>>

\* ------------------------------------------------------------------ Node
NewNode(x, y) ==
    [X |-> x, Y |-> y, G |-> 0, H |-> 0, F |-> 0, Parent |-> NilNode,
     IsObstacle |-> FALSE, Cost |-> DefaultCost]

\* variant: F is set to G alone
CalculateF_WithoutH(nd, n) == [nd EXCEPT ![n].F = nd[n].G]

\* n.CalculateF() on the store nd
CalculateF(nd, n) == [nd EXCEPT ![n].F = nd[n].G + nd[n].H]

\* n.Reset() on the store nd
NodeReset(nd, n) == [nd EXCEPT ![n].G = 0, ![n].H = 0, ![n].F = 0, ![n].Parent = NilNode]

\* n.Equals(other)
Equals(nd, n, other) ==
    IF other = NilNode THEN FALSE
    ELSE nd[n].X = nd[other].X /\ nd[n].Y = nd[other].Y

coordinate(nd, n) == <<nd[n].X, nd[n].Y>>

\* ------------------------------------------------------------ heuristics
Abs(v) == IF v < 0 THEN -v ELSE v

\* variant: the squares of the two distances are added
Manhattan_Squares(cx, cy, gx, gy) ==
    LET dx == Abs(cx - gx)
        dy == Abs(cy - gy)
    IN  (dx * dx + dy * dy) * 1000000

Manhattan(cx, cy, gx, gy) ==
    LET dx == Abs(cx - gx)
        dy == Abs(cy - gy)
    IN  (dx + dy) * 1000000

\* r * r <= v * 10^6 for 0 <= r < 10^7, in parts that fit a 32-bit integer
SquareAtMost(r, v) ==
    LET rh == r \div 1000
        rl == r % 1000
        mid == 2 * rh * rl
        low == (mid % 1000) * 1000 + rl * rl
        high == rh * rh + mid \div 1000 + low \div 1000000
    IN  high < v \/ (high = v /\ low % 1000000 = 0)

\* the greatest r in lo .. hi - 1 with r * r <= v * 10^6
RECURSIVE SqrtBetween(_, _, _)
SqrtBetween(lo, hi, v) ==
    IF hi - lo <= 1 THEN lo
    ELSE LET r == (lo + hi) \div 2
         IN  IF SquareAtMost(r, v) THEN SqrtBetween(r, hi, v) ELSE SqrtBetween(lo, r, v)

\* math.Sqrt(v), v and the result in units of 10^-6 (v below 100.0)
Sqrt(v) == SqrtBetween(0, 10000000, v)

Euclidean(cx, cy, gx, gy) ==
    LET dx == cx - gx
        dy == cy - gy
    IN  Sqrt((dx * dx + dy * dy) * 1000000)

EuclideanSquared(cx, cy, gx, gy) ==
    LET dx == cx - gx
        dy == cy - gy
    IN  (dx * dx + dy * dy) * 1000000

\* variant: the smaller of the two distances is returned
Diagonal_Smaller(cx, cy, gx, gy) ==
    LET dx == Abs(cx - gx)
        dy == Abs(cy - gy)
    IN  IF dx > dy THEN dy * 1000000 ELSE dx * 1000000

Diagonal(cx, cy, gx, gy) ==
    LET dx == Abs(cx - gx)
        dy == Abs(cy - gy)
    IN  IF dx > dy THEN dx * 1000000 ELSE dy * 1000000

DiagonalWithCost(cx, cy, gx, gy) ==
    LET dx == Abs(cx - gx)
        dy == Abs(cy - gy)
        minDist == IF dx < dy THEN dx ELSE dy
        maxDist == IF dx < dy THEN dy ELSE dx
    IN  straightCost * (maxDist - minDist) + diagonalCost * minDist

Zero(cx, cy, gx, gy) == 0

\* the call a.heuristic(current, goal) for the configured function value
ApplyHeuristic(h, nd, c, g) ==
    LET cx == nd[c].X
        cy == nd[c].Y
        gx == nd[g].X
        gy == nd[g].Y
    IN  CASE h = "Manhattan" -> Manhattan(cx, cy, gx, gy)
          [] h = "Euclidean" -> Euclidean(cx, cy, gx, gy)
          [] h = "EuclideanSquared" -> EuclideanSquared(cx, cy, gx, gy)
          [] h = "Diagonal" -> Diagonal(cx, cy, gx, gy)
          [] h = "DiagonalWithCost" -> DiagonalWithCost(cx, cy, gx, gy)
          [] h = "Zero" -> Zero(cx, cy, gx, gy)

\* variant: an unknown name falls back to the Zero heuristic
GetHeuristicByName_DefaultZero(name) ==
    CASE name = "manhattan" -> [fn |-> "Manhattan", ok |-> TRUE]
      [] name = "euclidean" -> [fn |-> "Euclidean", ok |-> TRUE]
      [] name = "euclidean_squared" -> [fn |-> "EuclideanSquared", ok |-> TRUE]
      [] name = "diagonal" -> [fn |-> "Diagonal", ok |-> TRUE]
      [] name = "diagonal_cost" -> [fn |-> "DiagonalWithCost", ok |-> TRUE]
      [] OTHER -> [fn |-> "Zero", ok |-> TRUE]

\* GetHeuristicByName(name): the function and the flag returned
GetHeuristicByName(name) ==
    CASE name = "manhattan" -> [fn |-> "Manhattan", ok |-> TRUE]
      [] name = "euclidean" -> [fn |-> "Euclidean", ok |-> TRUE]
      [] name = "euclidean_squared" -> [fn |-> "EuclideanSquared", ok |-> TRUE]
      [] name = "diagonal" -> [fn |-> "Diagonal", ok |-> TRUE]
      [] name = "diagonal_cost" -> [fn |-> "DiagonalWithCost", ok |-> TRUE]
      [] name = "zero" -> [fn |-> "Zero", ok |-> TRUE]
      [] OTHER -> [fn |-> NilHeuristic, ok |-> FALSE]

GetSupportedHeuristics ==
    <<"manhattan", "euclidean", "euclidean_squared", "diagonal", "diagonal_cost", "zero">>

\* ------------------------------------------------------------------ Grid
EmptyMap == [x \in {} |-> 0]

Cells(w, h) == (0 .. w - 1) \X (0 .. h - 1)

IsValidPosition(w, h, x, y) == x >= 0 /\ x < w /\ y >= 0 /\ y < h

\* variant: the FourWay table lacks the Left direction
getDirections_NoLeft(mt) ==
    IF mt = FourWay
    THEN << <<0, -1>>, <<1, 0>>, <<0, 1>> >>
    ELSE << <<0, -1>>, <<1, -1>>, <<1, 0>>, <<1, 1>>,
            <<0, 1>>, <<-1, 1>>, <<-1, 0>>, <<-1, -1>> >>

\* variant: the eight-direction table is returned for every movement type
getDirections_AlwaysEight(mt) ==
    << <<0, -1>>, <<1, -1>>, <<1, 0>>, <<1, 1>>,
       <<0, 1>>, <<-1, 1>>, <<-1, 0>>, <<-1, -1>> >>

\* variant: the FourWay table in the order up, down, left, right
getDirections_UpDownLeftRight(mt) ==
    IF mt = FourWay
    THEN << <<0, -1>>, <<0, 1>>, <<-1, 0>>, <<1, 0>> >>
    ELSE << <<0, -1>>, <<1, -1>>, <<1, 0>>, <<1, 1>>,
            <<0, 1>>, <<-1, 1>>, <<-1, 0>>, <<-1, -1>> >>

getDirections(mt) ==
    IF mt = FourWay
    THEN << <<0, -1>>, <<1, 0>>, <<0, 1>>, <<-1, 0>> >>
    ELSE << <<0, -1>>, <<1, -1>>, <<1, 0>>, <<1, 1>>,
            <<0, 1>>, <<-1, 1>>, <<-1, 0>>, <<-1, -1>> >>

\* variant: a zero dimension is accepted
NewGrid_AcceptZero(width, height, movementType) ==
    IF width < 0 \/ height < 0
    THEN [grid |-> NilGrid, err |-> ErrDimensions, Width |-> 0, Height |-> 0,
          MovementType |-> FourWay, nodes |-> EmptyMap]
    ELSE [grid |-> TheGrid, err |-> ErrNone, Width |-> width, Height |-> height,
          MovementType |-> movementType,
          nodes |-> [c \in Cells(width, height) |-> NewNode(c[1], c[2])]]

\* NewGrid(width, height, movementType): the grid pointer and error returned,
\* and the fields and nodes of the grid built (none when the pointer is nil)
NewGrid(width, height, movementType) ==
    IF width <= 0 \/ height <= 0
    THEN [grid |-> NilGrid, err |-> ErrDimensions, Width |-> 0, Height |-> 0,
          MovementType |-> FourWay, nodes |-> EmptyMap]
    ELSE [grid |-> TheGrid, err |-> ErrNone, Width |-> width, Height |-> height,
          MovementType |-> movementType,
          nodes |-> [c \in Cells(width, height) |-> NewNode(c[1], c[2])]]

\* g.GetNeighbors(n): the grid's nodes next to n, in direction order
GetNeighbors(w, h, mt, nd, n) ==
    LET directions == getDirections(mt)
    IN  SelectSeq([i \in 1 .. Len(directions) |->
                     <<nd[n].X + directions[i][1], nd[n].Y + directions[i][2]>>],
                  LAMBDA c : /\ IsValidPosition(w, h, c[1], c[2])
                             /\ ~nd[c].IsObstacle)

\* g.GetCost(from, to)
GetCost(nd, from, to) ==
    LET dx == nd[to].X - nd[from].X
        dy == nd[to].Y - nd[from].Y
        baseCost == IF dx # 0 /\ dy # 0 THEN DiagonalBase ELSE StraightBase
    IN  baseCost * nd[to].Cost

\* variant: x = width passes the bounds test
GridGetNode_UpToWidth(w, h, x, y) ==
    IF ~(x >= 0 /\ x <= w /\ y >= 0 /\ y < h)
    THEN [node |-> NilNode, err |-> ErrOutOfBounds]
    ELSE [node |-> <<x, y>>, err |-> ErrNone]

\* g.GetNode(x, y): the pointer and the error returned; g.nodes[y][x] is the
\* object NewGrid made with NewNode(x, y), whose identity is <<x, y>>
GridGetNode(w, h, x, y) ==
    IF ~IsValidPosition(w, h, x, y)
    THEN [node |-> NilNode, err |-> ErrOutOfBounds]
    ELSE [node |-> <<x, y>>, err |-> ErrNone]

\* variant: the flag is written before the bounds are looked at, into the
\* nearest cell of the grid
GridSetObstacle_Clamped(w, h, nd, x, y) ==
    LET cx == IF x < 0 THEN 0 ELSE IF x >= w THEN w - 1 ELSE x
        cy == IF y < 0 THEN 0 ELSE IF y >= h THEN h - 1 ELSE y
    IN  [nodes |-> [nd EXCEPT ![<<cx, cy>>].IsObstacle = TRUE],
         err |-> IF IsValidPosition(w, h, x, y) THEN ErrNone ELSE ErrOutOfBounds]

\* g.SetObstacle(x, y): the error returned and the nodes afterwards
GridSetObstacle(w, h, nd, x, y) ==
    IF ~IsValidPosition(w, h, x, y)
    THEN [nodes |-> nd, err |-> ErrOutOfBounds]
    ELSE [nodes |-> [nd EXCEPT ![<<x, y>>].IsObstacle = TRUE], err |-> ErrNone]

\* g.ClearObstacle(x, y): the error returned and the nodes afterwards
GridClearObstacle(w, h, nd, x, y) ==
    IF ~IsValidPosition(w, h, x, y)
    THEN [nodes |-> nd, err |-> ErrOutOfBounds]
    ELSE [nodes |-> [nd EXCEPT ![<<x, y>>].IsObstacle = FALSE], err |-> ErrNone]

\* variant: a position out of bounds is reported as free
GridIsObstacle_FreeOutside(w, h, nd, x, y) ==
    IF ~IsValidPosition(w, h, x, y) THEN FALSE
    ELSE nd[<<x, y>>].IsObstacle

\* g.IsObstacle(x, y)
GridIsObstacle(w, h, nd, x, y) ==
    IF ~IsValidPosition(w, h, x, y) THEN TRUE
    ELSE nd[<<x, y>>].IsObstacle

\* variant: the cost multiplier is put back to its default as well
GridReset_AlsoCost(w, h, nd) ==
    [n \in DOMAIN nd |->
        IF n \in Cells(w, h)
        THEN [nd[n] EXCEPT !.G = 0, !.H = 0, !.F = 0, !.Parent = NilNode, !.Cost = DefaultCost]
        ELSE nd[n]]

\* g.Reset()
GridReset(w, h, nd) ==
    [n \in DOMAIN nd |->
        IF n \in Cells(w, h)
        THEN [nd[n] EXCEPT !.G = 0, !.H = 0, !.F = 0, !.Parent = NilNode]
        ELSE nd[n]]

\* --------------------------------------------------------- PriorityQueue
\* Slots are numbered from 0 as in the source; slot i is nodes[i + 1].
MapSet(f, k, v) == [x \in (DOMAIN f) \cup {k} |-> IF x = k THEN v ELSE f[x]]

MapDelete(f, k) == [x \in (DOMAIN f) \ {k} |-> f[x]]

NewPriorityQueue == [nodes |-> <<>>, nodeIndex |-> EmptyMap]

PQLen(pq) == Len(pq.nodes)

Less(pq, nd, i, j) == nd[pq.nodes[i + 1]].F < nd[pq.nodes[j + 1]].F

\* variant: the nodes are exchanged and the lookup map is left as it was
Swap_StaleIndex(pq, nd, i, j) ==
    [nodes |-> [pq.nodes EXCEPT ![i + 1] = pq.nodes[j + 1], ![j + 1] = pq.nodes[i + 1]],
     nodeIndex |-> pq.nodeIndex]

Swap(pq, nd, i, j) ==
    LET ns == [pq.nodes EXCEPT ![i + 1] = pq.nodes[j + 1], ![j + 1] = pq.nodes[i + 1]]
        ix1 == MapSet(pq.nodeIndex, coordinate(nd, ns[i + 1]), i)
        ix2 == MapSet(ix1, coordinate(nd, ns[j + 1]), j)
    IN  [nodes |-> ns, nodeIndex |-> ix2]

Push(pq, nd, x) ==
    [nodes |-> Append(pq.nodes, x),
     nodeIndex |-> MapSet(pq.nodeIndex, coordinate(nd, x), Len(pq.nodes))]

\* returns the queue and the removed node
Pop(pq, nd) ==
    LET n == Len(pq.nodes)
        x == pq.nodes[n]
    IN  IF n = 0 THEN [pq |-> pq, node |-> NilNode]
        ELSE [pq |-> [nodes |-> SubSeq(pq.nodes, 1, n - 1),
                      nodeIndex |-> MapDelete(pq.nodeIndex, coordinate(nd, x))],
              node |-> x]

\* container/heap: up(h, j)
RECURSIVE up(_, _, _)
up(pq, nd, j) ==
    LET i == (j - 1) \div 2
    IN  IF j = 0 \/ i = j \/ ~Less(pq, nd, j, i) THEN pq
        ELSE up(Swap(pq, nd, i, j), nd, i)

\* container/heap: the loop of down(h, i0, n); returns the queue and the final slot
RECURSIVE downLoop(_, _, _, _)
downLoop(pq, nd, i, n) ==
    LET j1 == 2 * i + 1
        j2 == j1 + 1
        j == IF j2 < n /\ Less(pq, nd, j2, j1) THEN j2 ELSE j1
    IN  IF j1 >= n THEN [pq |-> pq, i |-> i]
        ELSE IF ~Less(pq, nd, j, i) THEN [pq |-> pq, i |-> i]
        ELSE downLoop(Swap(pq, nd, i, j), nd, j, n)

\* container/heap: down(h, i0, n); moved is its boolean result
down(pq, nd, i0, n) ==
    LET r == downLoop(pq, nd, i0, n)
    IN  [pq |-> r.pq, moved |-> r.i > i0]

\* container/heap: heap.Push(h, x)
HeapPush(pq, nd, x) ==
    LET p == Push(pq, nd, x)
    IN  up(p, nd, PQLen(p) - 1)

\* container/heap: heap.Pop(h); returns the queue and the removed node
HeapPop(pq, nd) ==
    LET n == PQLen(pq) - 1
        s == Swap(pq, nd, 0, n)
        d == down(s, nd, 0, n)
    IN  Pop(d.pq, nd)

\* container/heap: heap.Fix(h, i)
HeapFix(pq, nd, i) ==
    LET d == down(pq, nd, i, PQLen(pq))
    IN  IF ~d.moved THEN up(d.pq, nd, i) ELSE d.pq

Contains(pq, x, y) == <<x, y>> \in DOMAIN pq.nodeIndex

ContainsNode(pq, nd, n) == Contains(pq, nd[n].X, nd[n].Y)

IsEmpty(pq) == PQLen(pq) = 0

\* variant: the slice is emptied and the lookup map is kept
Clear_KeepIndex(pq) == [nodes |-> <<>>, nodeIndex |-> pq.nodeIndex]

Clear(pq) == [nodes |-> <<>>, nodeIndex |-> EmptyMap]

\* variant: an entry is also overwritten by an incoming node of equal F
PushNode_OrEqual(pq, nd, n) ==
    LET coord == coordinate(nd, n)
    IN  IF coord \in DOMAIN pq.nodeIndex
        THEN LET index == pq.nodeIndex[coord]
                 existingNode == pq.nodes[index + 1]
             IN  IF nd[n].F <= nd[existingNode].F
                 THEN LET nd2 == [nd EXCEPT ![existingNode].G = nd[n].G,
                                            ![existingNode].H = nd[n].H,
                                            ![existingNode].F = nd[n].F,
                                            ![existingNode].Parent = nd[n].Parent]
                      IN  [pq |-> HeapFix(pq, nd2, index), nd |-> nd2]
                 ELSE [pq |-> pq, nd |-> nd]
        ELSE [pq |-> HeapPush(pq, nd, n), nd |-> nd]

\* pq.PushNode(n); returns the queue and the node store
PushNode(pq, nd, n) ==
    LET coord == coordinate(nd, n)
    IN  IF coord \in DOMAIN pq.nodeIndex
        THEN LET index == pq.nodeIndex[coord]
                 existingNode == pq.nodes[index + 1]
             IN  IF nd[n].F < nd[existingNode].F
                 THEN LET nd2 == [nd EXCEPT ![existingNode].G = nd[n].G,
                                            ![existingNode].H = nd[n].H,
                                            ![existingNode].F = nd[n].F,
                                            ![existingNode].Parent = nd[n].Parent]
                      IN  [pq |-> HeapFix(pq, nd2, index), nd |-> nd2]
                 ELSE [pq |-> pq, nd |-> nd]
        ELSE [pq |-> HeapPush(pq, nd, n), nd |-> nd]

\* pq.GetNode(x, y): the queued node at (x, y), NilNode when there is none
GetNode(pq, x, y) ==
    IF <<x, y>> \in DOMAIN pq.nodeIndex THEN pq.nodes[pq.nodeIndex[<<x, y>>] + 1]
    ELSE NilNode

\* pq.Peek()
Peek(pq) == IF PQLen(pq) = 0 THEN NilNode ELSE pq.nodes[1]

\* variant: the new F is written and the heap is not fixed
UpdatePriority_NoFix(pq, nd, x, y, newF) ==
    IF <<x, y>> \in DOMAIN pq.nodeIndex
    THEN LET index == pq.nodeIndex[<<x, y>>]
             nd2 == [nd EXCEPT ![pq.nodes[index + 1]].F = newF]
         IN  [pq |-> pq, nd |-> nd2, ok |-> TRUE]
    ELSE [pq |-> pq, nd |-> nd, ok |-> FALSE]

\* pq.UpdatePriority(x, y, newF); returns the queue, the node store and the result
UpdatePriority(pq, nd, x, y, newF) ==
    IF <<x, y>> \in DOMAIN pq.nodeIndex
    THEN LET index == pq.nodeIndex[<<x, y>>]
             nd2 == [nd EXCEPT ![pq.nodes[index + 1]].F = newF]
         IN  [pq |-> HeapFix(pq, nd2, index), nd |-> nd2, ok |-> TRUE]
    ELSE [pq |-> pq, nd |-> nd, ok |-> FALSE]

\* variant: the emptiness test is off by one
PopNode_GuardOne(pq, nd) ==
    IF PQLen(pq) <= 1 THEN [pq |-> pq, node |-> NilNode]
    ELSE HeapPop(pq, nd)

\* pq.PopNode(); returns the queue and the removed node (NilNode when empty)
PopNode(pq, nd) ==
    IF PQLen(pq) = 0 THEN [pq |-> pq, node |-> NilNode]
    ELSE HeapPop(pq, nd)

\* ----------------------------------------------------------------- AStar
\* A route value: Go's nil slice, or a non-nil slice of nodes.
NilPath == [isNil |-> TRUE, nodes |-> <<>>]

PathOf(ns) == [isNil |-> FALSE, nodes |-> ns]

Reverse(sq) == [i \in 1 .. Len(sq) |-> sq[Len(sq) + 1 - i]]

\* the loop of reconstructPath: appends n and follows n.Parent; a chain that
\* comes back to a node already appended never ends
RECURSIVE parentChain(_, _, _)
parentChain(nd, n, acc) ==
    IF n = NilNode THEN [ends |-> TRUE, nodes |-> acc]
    ELSE IF \E k \in 1 .. Len(acc) : acc[k] = n THEN [ends |-> FALSE, nodes |-> acc]
    ELSE parentChain(nd, nd[n].Parent, Append(acc, n))

\* variant: the collected chain is returned without being reversed
reconstructPath_NoReverse(nd, goalNode) ==
    LET c == parentChain(nd, goalNode, <<>>)
    IN  [ends |-> c.ends, path |-> PathOf(c.nodes)]

\* a.reconstructPath(goalNode)
reconstructPath(nd, goalNode) ==
    LET c == parentChain(nd, goalNode, <<>>)
    IN  [ends |-> c.ends, path |-> PathOf(Reverse(c.nodes))]

\* variant: no node is ever reported as closed
isInClosedSet_Never(closed, nd, n) == FALSE

\* a.isInClosedSet(n)
isInClosedSet(closed, nd, n) == coordinate(nd, n) \in closed

\* variant: the open set is not cleared
reset_KeepOpen(gr, w, h, nd, pq) ==
    [openSet |-> pq,
     closedSet |-> {},
     node |-> IF gr # NilGrid THEN GridReset(w, h, nd) ELSE nd]

\* a.reset(): the node store, open set and closed set afterwards
reset(gr, w, h, nd, pq) ==
    [openSet |-> Clear(pq),
     closedSet |-> {},
     node |-> IF gr # NilGrid THEN GridReset(w, h, nd) ELSE nd]

\* variant: the start-equals-goal shortcut is taken before the obstacle checks
EarlyReturn_EqualsFirst(gr, hf, nd, s, g) ==
    IF s = NilNode \/ g = NilNode THEN [returns |-> TRUE, path |-> NilPath, err |-> ErrInvalidInput]
    ELSE IF gr = NilGrid THEN [returns |-> TRUE, path |-> NilPath, err |-> ErrInvalidInput]
    ELSE IF hf = NilHeuristic THEN [returns |-> TRUE, path |-> NilPath, err |-> ErrInvalidInput]
    ELSE IF Equals(nd, s, g) THEN [returns |-> TRUE, path |-> PathOf(<<s>>), err |-> ErrNone]
    ELSE IF nd[s].IsObstacle THEN [returns |-> TRUE, path |-> NilPath, err |-> ErrBlocked]
    ELSE IF nd[g].IsObstacle THEN [returns |-> TRUE, path |-> NilPath, err |-> ErrBlocked]
    ELSE [returns |-> FALSE, path |-> NilPath, err |-> ErrNone]

\* variant: the obstacle checks are made before the grid and heuristic checks
EarlyReturn_ObstacleFirst(gr, hf, nd, s, g) ==
    IF s = NilNode \/ g = NilNode THEN [returns |-> TRUE, path |-> NilPath, err |-> ErrInvalidInput]
    ELSE IF nd[s].IsObstacle THEN [returns |-> TRUE, path |-> NilPath, err |-> ErrBlocked]
    ELSE IF nd[g].IsObstacle THEN [returns |-> TRUE, path |-> NilPath, err |-> ErrBlocked]
    ELSE IF gr = NilGrid THEN [returns |-> TRUE, path |-> NilPath, err |-> ErrInvalidInput]
    ELSE IF hf = NilHeuristic THEN [returns |-> TRUE, path |-> NilPath, err |-> ErrInvalidInput]
    ELSE IF Equals(nd, s, g) THEN [returns |-> TRUE, path |-> PathOf(<<s>>), err |-> ErrNone]
    ELSE [returns |-> FALSE, path |-> NilPath, err |-> ErrNone]

\* variant: the start-equals-goal shortcut returns both arguments
EarlyReturn_PairRoute(gr, hf, nd, s, g) ==
    IF s = NilNode \/ g = NilNode THEN [returns |-> TRUE, path |-> NilPath, err |-> ErrInvalidInput]
    ELSE IF gr = NilGrid THEN [returns |-> TRUE, path |-> NilPath, err |-> ErrInvalidInput]
    ELSE IF hf = NilHeuristic THEN [returns |-> TRUE, path |-> NilPath, err |-> ErrInvalidInput]
    ELSE IF nd[s].IsObstacle THEN [returns |-> TRUE, path |-> NilPath, err |-> ErrBlocked]
    ELSE IF nd[g].IsObstacle THEN [returns |-> TRUE, path |-> NilPath, err |-> ErrBlocked]
    ELSE IF Equals(nd, s, g) THEN [returns |-> TRUE, path |-> PathOf(<<s, g>>), err |-> ErrNone]
    ELSE [returns |-> FALSE, path |-> NilPath, err |-> ErrNone]

\* FindPath, lines 88-113: the checks that return before any state is touched
EarlyReturn(gr, hf, nd, s, g) ==
    IF s = NilNode \/ g = NilNode THEN [returns |-> TRUE, path |-> NilPath, err |-> ErrInvalidInput]
    ELSE IF gr = NilGrid THEN [returns |-> TRUE, path |-> NilPath, err |-> ErrInvalidInput]
    ELSE IF hf = NilHeuristic THEN [returns |-> TRUE, path |-> NilPath, err |-> ErrInvalidInput]
    ELSE IF nd[s].IsObstacle THEN [returns |-> TRUE, path |-> NilPath, err |-> ErrBlocked]
    ELSE IF nd[g].IsObstacle THEN [returns |-> TRUE, path |-> NilPath, err |-> ErrBlocked]
    ELSE IF Equals(nd, s, g) THEN [returns |-> TRUE, path |-> PathOf(<<s>>), err |-> ErrNone]
    ELSE [returns |-> FALSE, path |-> NilPath, err |-> ErrNone]

\* FindPath, lines 116-125: reset, set up the start node, push it
SeedStart(gr, hf, w, h, nd, pq, s, g) ==
    LET r == reset(gr, w, h, nd, pq)
        n1 == [r.node EXCEPT ![s].G = 0]
        n2 == [n1 EXCEPT ![s].H = ApplyHeuristic(hf, n1, s, g)]
        n3 == CalculateF(n2, s)
        n4 == [n3 EXCEPT ![s].Parent = NilNode]
        p == PushNode(r.openSet, n4, s)
    IN  [node |-> p.nd, openSet |-> p.pq, closedSet |-> r.closedSet]

\* variant: the predecessor of an improved neighbor is not recorded
ExamineNeighbor_KeepParent(hf, st, closed, cur, neighbor, g) ==
    IF st.node[neighbor].IsObstacle \/ isInClosedSet(closed, st.node, neighbor) THEN st
    ELSE LET newG == st.node[cur].G + GetCost(st.node, cur, neighbor)
             inOpenSet == ContainsNode(st.openSet, st.node, neighbor)
         IN  IF ~inOpenSet \/ newG < st.node[neighbor].G
             THEN LET n1 == [st.node EXCEPT ![neighbor].G = newG]
                      n2 == [n1 EXCEPT ![neighbor].H = ApplyHeuristic(hf, n1, neighbor, g)]
                      n3 == CalculateF(n2, neighbor)
                  IN  IF ~inOpenSet
                      THEN LET p == PushNode(st.openSet, n3, neighbor)
                           IN  [node |-> p.nd, openSet |-> p.pq]
                      ELSE [node |-> n3, openSet |-> st.openSet]
             ELSE st

\* variant: the cost of the last move is taken for the cost from the start
ExamineNeighbor_StepCostOnly(hf, st, closed, cur, neighbor, g) ==
    IF st.node[neighbor].IsObstacle \/ isInClosedSet(closed, st.node, neighbor) THEN st
    ELSE LET newG == GetCost(st.node, cur, neighbor)
             inOpenSet == ContainsNode(st.openSet, st.node, neighbor)
         IN  IF ~inOpenSet \/ newG < st.node[neighbor].G
             THEN LET n1 == [st.node EXCEPT ![neighbor].G = newG]
                      n2 == [n1 EXCEPT ![neighbor].H = ApplyHeuristic(hf, n1, neighbor, g)]
                      n3 == CalculateF(n2, neighbor)
                      n4 == [n3 EXCEPT ![neighbor].Parent = cur]
                  IN  IF ~inOpenSet
                      THEN LET p == PushNode(st.openSet, n4, neighbor)
                           IN  [node |-> p.nd, openSet |-> p.pq]
                      ELSE [node |-> n4, openSet |-> st.openSet]
             ELSE st

\* FindPath, lines 143-165: the body of the neighbor loop for one neighbor
ExamineNeighbor(hf, st, closed, cur, neighbor, g) ==
    IF st.node[neighbor].IsObstacle \/ isInClosedSet(closed, st.node, neighbor) THEN st
    ELSE LET newG == st.node[cur].G + GetCost(st.node, cur, neighbor)
             inOpenSet == ContainsNode(st.openSet, st.node, neighbor)
         IN  IF ~inOpenSet \/ newG < st.node[neighbor].G
             THEN LET n1 == [st.node EXCEPT ![neighbor].G = newG]
                      n2 == [n1 EXCEPT ![neighbor].H = ApplyHeuristic(hf, n1, neighbor, g)]
                      n3 == CalculateF(n2, neighbor)
                      n4 == [n3 EXCEPT ![neighbor].Parent = cur]
                  IN  IF ~inOpenSet
                      THEN LET p == PushNode(st.openSet, n4, neighbor)
                           IN  [node |-> p.nd, openSet |-> p.pq]
                      ELSE [node |-> n4, openSet |-> st.openSet]
             ELSE st

\* FindPath, lines 142-166: the neighbor loop
RECURSIVE ExamineNeighbors(_, _, _, _, _, _, _)
ExamineNeighbors(hf, st, closed, cur, neighbors, k, g) ==
    IF k > Len(neighbors) THEN st
    ELSE ExamineNeighbors(hf, ExamineNeighbor(hf, st, closed, cur, neighbors[k], g),
                          closed, cur, neighbors, k + 1, g)

\* FindPath, lines 130-166: one iteration of the main loop on a non-empty open set
LoopBody(hf, w, h, mt, nd, pq, closed, g) ==
    LET p == PopNode(pq, nd)
        cur == p.node
    IN  IF Equals(nd, cur, g)
        THEN LET r == reconstructPath(nd, cur)
             IN  [returns |-> TRUE, ends |-> r.ends, path |-> r.path, current |-> cur,
                  node |-> nd, openSet |-> p.pq, closedSet |-> closed]
        ELSE LET closed2 == closed \cup {coordinate(nd, cur)}
                 neighbors == GetNeighbors(w, h, mt, nd, cur)
                 st == ExamineNeighbors(hf, [node |-> nd, openSet |-> p.pq],
                                        closed2, cur, neighbors, 1, g)
             IN  [returns |-> FALSE, ends |-> TRUE, path |-> NilPath, current |-> cur,
                  node |-> st.node, openSet |-> st.openSet, closedSet |-> closed2]

\* --------------------------------------------------------------- actions
gridVars == <<Width, Height, MovementType>>

auxVars == <<astar2, call, calls, queued>>

\* NewAStar(): the fields of a new AStar, with the position and result of its
\* FindPath call and the position its peer was at when the call was made
NewAStar ==
    [grid |-> NilGrid, heuristic |-> "Manhattan", openSet |-> NewPriorityQueue, closedSet |-> {},
     pc |-> "idle", start |-> NilNode, goal |-> NilNode, current |-> NilNode,
     retPath |-> NilPath, retErr |-> ErrNone, peerAtCall |-> "idle"]

\* no direct call made yet
NoCall ==
    [op |-> "none", x |-> 0, y |-> 0, node |-> NilNode, ok |-> FALSE, err |-> ErrNone,
     val |-> <<>>]

searchVars == <<openSet, closedSet, pc, start, goal, current, retPath, retErr>>

\* a.SetGrid(grid)
SetGrid ==
    /\ pc = "idle"
    /\ grid = NilGrid
    /\ grid' = TheGrid
    /\ UNCHANGED <<auxVars, gridVars, node, heuristic, searchVars, gridErr, edits>>

\* a.SetHeuristic(h)
SetHeuristic(h) ==
    /\ pc = "idle"
    /\ h # heuristic
    /\ heuristic' = h
    /\ UNCHANGED <<auxVars, gridVars, node, grid, searchVars, gridErr, edits>>

\* g.SetObstacle(x, y)
SetObstacle(x, y) ==
    /\ pc = "idle"
    /\ edits < MaxEdits
    /\ edits' = edits + 1
    /\ IF ~IsValidPosition(Width, Height, x, y)
       THEN /\ gridErr' = ErrOutOfBounds
            /\ node' = node
       ELSE /\ gridErr' = ErrNone
            /\ node' = [node EXCEPT ![<<x, y>>].IsObstacle = TRUE]
    /\ UNCHANGED <<auxVars, gridVars, grid, heuristic, searchVars>>

\* g.ClearObstacle(x, y)
ClearObstacle(x, y) ==
    /\ pc = "idle"
    /\ edits < MaxEdits
    /\ edits' = edits + 1
    /\ IF ~IsValidPosition(Width, Height, x, y)
       THEN /\ gridErr' = ErrOutOfBounds
            /\ node' = node
       ELSE /\ gridErr' = ErrNone
            /\ node' = [node EXCEPT ![<<x, y>>].IsObstacle = FALSE]
    /\ UNCHANGED <<auxVars, gridVars, grid, heuristic, searchVars>>

\* variant: the transient state is reset before the checks are made
FindPath_ResetFirst(s, g) ==
    /\ pc = "idle"
    /\ start' = s
    /\ goal' = g
    /\ LET r == reset(grid, Width, Height, node, openSet)
           e == EarlyReturn(grid, heuristic, r.node, s, g)
       IN  IF e.returns
           THEN /\ pc' = "done"
                /\ retPath' = e.path
                /\ retErr' = e.err
                /\ node' = r.node
                /\ openSet' = r.openSet
                /\ closedSet' = r.closedSet
                /\ UNCHANGED current
           ELSE LET sd == SeedStart(grid, heuristic, Width, Height, node, openSet, s, g)
                IN  /\ pc' = "loop"
                    /\ node' = sd.node
                    /\ openSet' = sd.openSet
                    /\ closedSet' = sd.closedSet
                    /\ current' = NilNode
                    /\ retPath' = NilPath
                    /\ retErr' = ErrNone
    /\ UNCHANGED <<auxVars, gridVars, grid, heuristic, gridErr, edits>>

\* a.FindPath(s, g) up to the first test of the main loop
FindPath(s, g) ==
    /\ pc = "idle"
    /\ start' = s
    /\ goal' = g
    /\ LET e == EarlyReturn(grid, heuristic, node, s, g)
       IN  IF e.returns
           THEN /\ pc' = "done"
                /\ retPath' = e.path
                /\ retErr' = e.err
                /\ UNCHANGED <<node, openSet, closedSet, current>>
           ELSE LET sd == SeedStart(grid, heuristic, Width, Height, node, openSet, s, g)
                IN  /\ pc' = "loop"
                    /\ node' = sd.node
                    /\ openSet' = sd.openSet
                    /\ closedSet' = sd.closedSet
                    /\ current' = NilNode
                    /\ retPath' = NilPath
                    /\ retErr' = ErrNone
    /\ UNCHANGED <<auxVars, gridVars, grid, heuristic, gridErr, edits>>

\* one iteration of FindPath's main loop
LoopIter ==
    /\ pc = "loop"
    /\ ~IsEmpty(openSet)
    /\ LET b == LoopBody(heuristic, Width, Height, MovementType, node, openSet, closedSet, goal)
       IN  /\ current' = b.current
           /\ node' = b.node
           /\ openSet' = b.openSet
           /\ closedSet' = b.closedSet
           /\ retPath' = b.path
           /\ retErr' = ErrNone
           /\ pc' = IF ~b.returns THEN "loop"
                    ELSE IF b.ends THEN "done"
                    ELSE "reconstruct"
    /\ UNCHANGED <<auxVars, gridVars, grid, heuristic, start, goal, gridErr, edits>>

\* variant: an empty non-nil slice is returned with the no-path error
LoopExit_EmptySlice ==
    /\ pc = "loop"
    /\ IsEmpty(openSet)
    /\ pc' = "done"
    /\ retPath' = PathOf(<<>>)
    /\ retErr' = ErrNoPath
    /\ UNCHANGED <<auxVars, gridVars, node, grid, heuristic, openSet, closedSet, start, goal, current,
                   gridErr, edits>>

\* the main loop ends on an empty open set: no path
LoopExit ==
    /\ pc = "loop"
    /\ IsEmpty(openSet)
    /\ pc' = "done"
    /\ retPath' = NilPath
    /\ retErr' = ErrNoPath
    /\ UNCHANGED <<auxVars, gridVars, node, grid, heuristic, openSet, closedSet, start, goal, current,
                   gridErr, edits>>

\* the caller takes the result and may call again
Return ==
    /\ pc = "done"
    /\ pc' = "idle"
    /\ UNCHANGED <<auxVars, gridVars, node, grid, heuristic, openSet, closedSet, start, goal, current,
                   retPath, retErr, gridErr, edits>>

\* The same FindPath steps on the second AStar, which shares the Grid (and so
\* the Node objects) with the first.  Two goroutines that run FindPath on the
\* two instances are interleaved here between iterations of the main loops.
astar2Frame == <<gridVars, grid, heuristic, searchVars, gridErr, edits, call, calls, queued>>

\* a2.FindPath(s, g) up to the first test of the main loop
FindPath2(s, g) ==
    /\ astar2.pc = "idle"
    /\ LET e == EarlyReturn(astar2.grid, astar2.heuristic, node, s, g)
       IN  IF e.returns
           THEN /\ astar2' = [astar2 EXCEPT !.pc = "done", !.start = s, !.goal = g,
                                            !.retPath = e.path, !.retErr = e.err,
                                            !.peerAtCall = pc]
                /\ node' = node
           ELSE LET sd == SeedStart(astar2.grid, astar2.heuristic, Width, Height, node,
                                    astar2.openSet, s, g)
                IN  /\ astar2' = [astar2 EXCEPT !.pc = "loop", !.start = s, !.goal = g,
                                                !.openSet = sd.openSet,
                                                !.closedSet = sd.closedSet,
                                                !.current = NilNode,
                                                !.retPath = NilPath, !.retErr = ErrNone,
                                                !.peerAtCall = pc]
                    /\ node' = sd.node
    /\ UNCHANGED astar2Frame

\* one iteration of the main loop of a2.FindPath
LoopIter2 ==
    /\ astar2.pc = "loop"
    /\ ~IsEmpty(astar2.openSet)
    /\ LET b == LoopBody(astar2.heuristic, Width, Height, MovementType, node,
                         astar2.openSet, astar2.closedSet, astar2.goal)
       IN  /\ astar2' = [astar2 EXCEPT !.current = b.current,
                                       !.openSet = b.openSet,
                                       !.closedSet = b.closedSet,
                                       !.retPath = b.path,
                                       !.retErr = ErrNone,
                                       !.pc = IF ~b.returns THEN "loop"
                                              ELSE IF b.ends THEN "done"
                                              ELSE "reconstruct"]
           /\ node' = b.node
    /\ UNCHANGED astar2Frame

\* the main loop of a2.FindPath ends on an empty open set: no path
LoopExit2 ==
    /\ astar2.pc = "loop"
    /\ IsEmpty(astar2.openSet)
    /\ astar2' = [astar2 EXCEPT !.pc = "done", !.retPath = NilPath, !.retErr = ErrNoPath]
    /\ UNCHANGED <<node, astar2Frame>>

\* Direct calls on a PriorityQueue.  The queue under test is held in openSet,
\* the caller's nodes in the store, and every call leaves its result in call.
queueFrame == <<gridVars, grid, heuristic, closedSet, pc, start, goal, current,
                retPath, retErr, gridErr, edits, astar2>>

Called(op, x, y, n, ok) ==
    [op |-> op, x |-> x, y |-> y, node |-> n, ok |-> ok, err |-> ErrNone, val |-> <<>>]

\* pq.PushNode(n)
PushNodeCall(n) ==
    /\ calls < MaxCalls
    /\ calls' = calls + 1
    /\ LET r == PushNode(openSet, node, n)
       IN  /\ openSet' = r.pq
           /\ node' = r.nd
    /\ queued' = queued \cup {coordinate(node, n)}
    /\ call' = Called("PushNode", node[n].X, node[n].Y, n, TRUE)
    /\ UNCHANGED queueFrame

\* pq.PopNode()
PopNodeCall ==
    /\ calls < MaxCalls
    /\ calls' = calls + 1
    /\ LET r == PopNode(openSet, node)
       IN  /\ openSet' = r.pq
           /\ queued' = IF r.node = NilNode THEN queued ELSE queued \ {coordinate(node, r.node)}
           /\ call' = Called("PopNode", 0, 0, r.node, r.node # NilNode)
    /\ UNCHANGED <<node, queueFrame>>

\* pq.UpdatePriority(x, y, newF)
UpdatePriorityCall(x, y, newF) ==
    /\ calls < MaxCalls
    /\ calls' = calls + 1
    /\ LET r == UpdatePriority(openSet, node, x, y, newF)
       IN  /\ openSet' = r.pq
           /\ node' = r.nd
           /\ call' = [Called("UpdatePriority", x, y, NilNode, r.ok) EXCEPT !.val = <<newF>>]
    /\ UNCHANGED <<queued, queueFrame>>

\* pq.Clear()
ClearCall ==
    /\ calls < MaxCalls
    /\ calls' = calls + 1
    /\ openSet' = Clear(openSet)
    /\ queued' = {}
    /\ call' = Called("Clear", 0, 0, NilNode, TRUE)
    /\ UNCHANGED <<node, queueFrame>>

\* pq.Contains(x, y)
ContainsCall(x, y) ==
    /\ call' = Called("Contains", x, y, NilNode, Contains(openSet, x, y))
    /\ UNCHANGED <<node, openSet, queued, calls, queueFrame>>

\* pq.ContainsNode(n)
ContainsNodeCall(n) ==
    /\ call' = Called("ContainsNode", node[n].X, node[n].Y, n, ContainsNode(openSet, node, n))
    /\ UNCHANGED <<node, openSet, queued, calls, queueFrame>>

\* pq.GetNode(x, y)
GetNodeCall(x, y) ==
    /\ call' = Called("GetNode", x, y, GetNode(openSet, x, y), GetNode(openSet, x, y) # NilNode)
    /\ UNCHANGED <<node, openSet, queued, calls, queueFrame>>

\* pq.Peek()
PeekCall ==
    /\ call' = Called("Peek", 0, 0, Peek(openSet), Peek(openSet) # NilNode)
    /\ UNCHANGED <<node, openSet, queued, calls, queueFrame>>

\* pq.IsEmpty()
IsEmptyCall ==
    /\ call' = Called("IsEmpty", 0, 0, NilNode, IsEmpty(openSet))
    /\ UNCHANGED <<node, openSet, queued, calls, queueFrame>>

\* Direct calls on a Grid.  NewGrid is the caller's first call; the other
\* calls need the grid it returns.
gridFrame == <<grid, heuristic, searchVars, gridErr, edits, astar2, queued>>

\* grid, err := NewGrid(width, height, movementType)
NewGridCall(width, height, movementType) ==
    /\ call = NoCall
    /\ calls' = calls + 1
    /\ LET r == NewGrid(width, height, movementType)
       IN  /\ Width' = r.Width
           /\ Height' = r.Height
           /\ MovementType' = r.MovementType
           /\ node' = r.nodes
           /\ call' = [Called("NewGrid", width, height, NilNode, r.grid # NilGrid)
                          EXCEPT !.err = r.err]
    /\ UNCHANGED gridFrame

\* node, _ := g.GetNode(x, y); node.Cost = c
SetCost(x, y, c) ==
    /\ pc = "idle"
    /\ IsValidPosition(Width, Height, x, y)
    /\ edits < MaxEdits
    /\ edits' = edits + 1
    /\ node' = [node EXCEPT ![<<x, y>>].Cost = c]
    /\ UNCHANGED <<auxVars, gridVars, grid, heuristic, searchVars, gridErr>>

\* g.GetNeighbors(node) for the grid's node at (x, y)
GetNeighborsCall(x, y) ==
    /\ IsValidPosition(Width, Height, x, y)
    /\ call' = [Called("GetNeighbors", x, y, <<x, y>>, TRUE)
                   EXCEPT !.val = GetNeighbors(Width, Height, MovementType, node, <<x, y>>)]
    /\ UNCHANGED <<gridVars, node, calls, gridFrame>>

\* g.GetCost(from, to) for two of the grid's nodes
GetCostCall(from, to) ==
    /\ from \in DOMAIN node
    /\ to \in DOMAIN node
    /\ call' = [Called("GetCost", from[1], from[2], to, TRUE)
                   EXCEPT !.val = <<GetCost(node, from, to)>>]
    /\ UNCHANGED <<gridVars, node, calls, gridFrame>>

\* Direct calls on the cells of a Grid.  val holds what the caller saw before
\* the call: the cell's obstacle flag (none out of bounds) and the call before.
cellsFrame == <<gridVars, grid, heuristic, searchVars, gridErr, calls, astar2, queued>>

\* node, err := g.GetNode(x, y)
GridGetNodeCall(x, y) ==
    /\ LET r == GridGetNode(Width, Height, x, y)
       IN  call' = [Called("Grid.GetNode", x, y, r.node, r.err = ErrNone) EXCEPT !.err = r.err]
    /\ UNCHANGED <<node, edits, cellsFrame>>

\* node.IsObstacle = true, through the pointer the last GetNode call returned
MarkObstacle ==
    /\ call.op = "Grid.GetNode"
    /\ call.node # NilNode
    /\ edits < CellEdits
    /\ edits' = edits + 1
    /\ node' = [node EXCEPT ![call.node].IsObstacle = TRUE]
    /\ UNCHANGED <<call, cellsFrame>>

\* the obstacle flag the grid holds for (x, y), if it holds one
FlagAt(x, y) ==
    IF IsValidPosition(Width, Height, x, y) THEN <<node[<<x, y>>].IsObstacle>> ELSE <<>>

\* err := g.SetObstacle(x, y)
SetObstacleCall(x, y) ==
    /\ edits < CellEdits
    /\ edits' = edits + 1
    /\ LET r == GridSetObstacle(Width, Height, node, x, y)
       IN  /\ node' = r.nodes
           /\ call' = [Called("Grid.SetObstacle", x, y, NilNode, r.err = ErrNone)
                          EXCEPT !.err = r.err, !.val = FlagAt(x, y) \o <<call.op>>]
    /\ UNCHANGED cellsFrame

\* err := g.ClearObstacle(x, y)
ClearObstacleCall(x, y) ==
    /\ edits < CellEdits
    /\ edits' = edits + 1
    /\ LET r == GridClearObstacle(Width, Height, node, x, y)
       IN  /\ node' = r.nodes
           /\ call' = [Called("Grid.ClearObstacle", x, y, NilNode, r.err = ErrNone)
                          EXCEPT !.err = r.err, !.val = FlagAt(x, y) \o <<call.op>>]
    /\ UNCHANGED cellsFrame

\* g.IsObstacle(x, y)
IsObstacleCall(x, y) ==
    /\ call' = Called("Grid.IsObstacle", x, y, NilNode, GridIsObstacle(Width, Height, node, x, y))
    /\ UNCHANGED <<node, edits, cellsFrame>>

\* Search state written by a caller and cleared by Reset.  val holds the
\* number of nodes that carried search state when Reset was called.
resetFrame == <<gridVars, grid, heuristic, searchVars, gridErr, calls, astar2, queued>>

\* the nodes of nd that carry search state
Marked(nd) ==
    {n \in DOMAIN nd : nd[n].G # 0 \/ nd[n].H # 0 \/ nd[n].F # 0 \/ nd[n].Parent # NilNode}

\* node.G = 5.0; node.H = 3.0; node.F = 8.0; node.Parent = parent
SetScores(n, parent) ==
    /\ edits < ResetEdits
    /\ edits' = edits + 1
    /\ node' = [node EXCEPT ![n].G = 5 * StraightBase, ![n].H = 3 * StraightBase,
                            ![n].F = 8 * StraightBase, ![n].Parent = parent]
    /\ UNCHANGED <<call, resetFrame>>

\* g.Reset()
GridResetCall ==
    /\ node' = GridReset(Width, Height, node)
    /\ call' = [Called("Grid.Reset", 0, 0, NilNode, TRUE)
                   EXCEPT !.val = <<Cardinality(Marked(node))>>]
    /\ UNCHANGED <<edits, resetFrame>>

\* n.Reset()
NodeResetCall(n) ==
    /\ node' = NodeReset(node, n)
    /\ call' = [Called("Node.Reset", node[n].X, node[n].Y, n, TRUE)
                   EXCEPT !.val = <<Cardinality(Marked(node) \cap {n})>>]
    /\ UNCHANGED <<edits, resetFrame>>

\* h(a, b) for a heuristic function h and two nodes; val holds the estimate
HeuristicCall(h, a, b) ==
    /\ call' = [Called(h, node[b].X, node[b].Y, a, TRUE)
                   EXCEPT !.val = <<ApplyHeuristic(h, node, a, b)>>]
    /\ UNCHANGED <<gridVars, node, grid, heuristic, searchVars, gridErr, edits,
                   calls, astar2, queued>>

\* heuristic, valid := GetHeuristicByName(name)
GetHeuristicByNameCall(name) ==
    /\ LET r == GetHeuristicByName(name)
       IN  /\ heuristic' = r.fn
           /\ call' = [Called("GetHeuristicByName", 0, 0, NilNode, r.ok) EXCEPT !.val = <<name>>]
    /\ UNCHANGED <<gridVars, node, grid, searchVars, gridErr, edits, calls, astar2, queued>>

\* supported := GetSupportedHeuristics()
GetSupportedHeuristicsCall ==
    /\ call' = [Called("GetSupportedHeuristics", 0, 0, NilNode, TRUE)
                   EXCEPT !.val = GetSupportedHeuristics]
    /\ UNCHANGED <<gridVars, node, grid, heuristic, searchVars, gridErr, edits,
                   calls, astar2, queued>>

\* ------------------------------------------------------- specifications
\* b is one step from a under movement model mt
OneStep(mt, a, b) ==
    LET dx == Abs(a[1] - b[1])
        dy == Abs(a[2] - b[2])
    IN  /\ dx <= 1
        /\ dy <= 1
        /\ dx + dy >= 1
        /\ (mt = FourWay => dx + dy = 1)

MovementTypes == {FourWay, EightWay}

\* cost multipliers the caller may have written into the nodes
UniformTerrain(w, h) == [c \in Cells(w, h) |-> DefaultCost]

\* NewGrid(w, h, mt) with the terrain's multipliers, and NewAStar()
InitWith(w, h, mt, terrain) ==
    /\ Width = w
    /\ Height = h
    /\ MovementType = mt
    /\ node = [c \in Cells(w, h) |-> [NewNode(c[1], c[2]) EXCEPT !.Cost = terrain[c]]]
    /\ grid = NilGrid
    /\ heuristic = "Manhattan"
    /\ openSet = NewPriorityQueue
    /\ closedSet = {}
    /\ pc = "idle"
    /\ start = NilNode
    /\ goal = NilNode
    /\ current = NilNode
    /\ retPath = NilPath
    /\ retErr = ErrNone
    /\ gridErr = ErrNone
    /\ edits = 0
    /\ astar2 = NewAStar
    /\ call = NoCall
    /\ calls = 0
    /\ queued = {}

Init ==
    \E w \in 1 .. MaxW, h \in 1 .. MaxH, mt \in MovementTypes :
        InitWith(w, h, mt, UniformTerrain(w, h))

Next ==
    \/ SetGrid
    \/ \E h \in HeuristicFuncs \cup {NilHeuristic} : SetHeuristic(h)
    \/ \E x \in -1 .. Width, y \in -1 .. Height : SetObstacle(x, y)
    \/ \E x \in -1 .. Width, y \in -1 .. Height : ClearObstacle(x, y)
    \/ \E s \in DOMAIN node \cup {NilNode}, g \in DOMAIN node \cup {NilNode} : FindPath(s, g)
    \/ LoopIter
    \/ LoopExit

Spec == Init /\ [][Next]_vars


\* Weighted terrain: the caller has built the grid, written cost multipliers
\* into the nodes of two cells, and configured the pathfinder.
CostValues == {1, 2, 3}

WeightedCells == {<<1, 0>>, <<2, 0>>}

Terrains(w, h) ==
    {[c \in Cells(w, h) |-> IF c \in DOMAIN m THEN m[c] ELSE DefaultCost] :
        m \in [WeightedCells \cap Cells(w, h) -> CostValues]}

InitTerrain ==
    \E w \in 1 .. TerrainW, h \in 1 .. TerrainH, mt \in MovementTypes :
        \E terrain \in Terrains(w, h), hf \in {"Manhattan", "Zero"} :
            /\ Width = w
            /\ Height = h
            /\ MovementType = mt
            /\ node = [c \in Cells(w, h) |-> [NewNode(c[1], c[2]) EXCEPT !.Cost = terrain[c]]]
            /\ grid = TheGrid
            /\ heuristic = hf
            /\ openSet = NewPriorityQueue
            /\ closedSet = {}
            /\ pc = "idle"
            /\ start = NilNode
            /\ goal = NilNode
            /\ current = NilNode
            /\ retPath = NilPath
            /\ retErr = ErrNone
            /\ gridErr = ErrNone
            /\ edits = 0
            /\ astar2 = NewAStar
            /\ call = NoCall
            /\ calls = 0
            /\ queued = {}

NextTerrain ==
    \/ edits < MaxTerrainEdits /\ \E x \in 0 .. Width - 1, y \in 0 .. Height - 1 : SetObstacle(x, y)
    \/ \E s \in DOMAIN node, g \in DOMAIN node : FindPath(s, g)
    \/ LoopIter
    \/ LoopExit

SpecTerrain == InitTerrain /\ [][NextTerrain]_vars

\* Reuse: one AStar/Grid pair serves call after call, with obstacle edits in
\* between; the grid is set and the default heuristic is kept.
InitReuse ==
    \E w \in 1 .. ReuseW, h \in 1 .. ReuseH, mt \in MovementTypes :
        /\ InitWith(w, h, mt, UniformTerrain(w, h)) 

NextReuse ==
    \/ SetGrid
    \/ \E x \in 0 .. Width - 1, y \in 0 .. Height - 1 : SetObstacle(x, y)
    \/ \E x \in 0 .. Width - 1, y \in 0 .. Height - 1 : ClearObstacle(x, y)
    \/ \E s \in DOMAIN node, g \in DOMAIN node : grid # NilGrid /\ FindPath(s, g)
    \/ LoopIter
    \/ LoopExit
    \/ Return

SpecReuse == InitReuse /\ [][NextReuse]_vars

\* Corner to corner: searches from cell (0, 0) to cell (Width-1, Height-1) on
\* grids of every size up to CornerW x CornerH, with at most CornerEdits
\* obstacles placed first.
InitCorner ==
    \E w \in 1 .. CornerW, h \in 1 .. CornerH, mt \in MovementTypes :
        InitWith(w, h, mt, UniformTerrain(w, h))

NextCorner ==
    \/ SetGrid
    \/ \E x \in 0 .. Width - 1, y \in 0 .. Height - 1 : edits < CornerEdits /\ SetObstacle(x, y)
    \/ grid # NilGrid /\ FindPath(<<0, 0>>, <<Width - 1, Height - 1>>)
    \/ LoopIter
    \/ LoopExit

SpecCorner == InitCorner /\ [][NextCorner]_vars

\* Shared grid: two AStar instances, both with the default heuristic, are
\* configured with one Grid; each runs one FindPath call and the steps of
\* the two calls interleave.  Obstacles are placed before either call.
InitShared ==
    \E w \in 1 .. SharedW, h \in 1 .. SharedH, mt \in MovementTypes :
        /\ Width = w
        /\ Height = h
        /\ MovementType = mt
        /\ node = [c \in Cells(w, h) |-> NewNode(c[1], c[2])]
        /\ grid = TheGrid
        /\ heuristic = "Manhattan"
        /\ openSet = NewPriorityQueue
        /\ closedSet = {}
        /\ pc = "idle"
        /\ start = NilNode
        /\ goal = NilNode
        /\ current = NilNode
        /\ retPath = NilPath
        /\ retErr = ErrNone
        /\ gridErr = ErrNone
        /\ edits = 0
        /\ astar2 = [NewAStar EXCEPT !.grid = TheGrid]
        /\ call = NoCall
        /\ calls = 0
        /\ queued = {}

\* the calls go between two opposite corners of the grid
Corners == {<<0, 0>>, <<Width - 1, Height - 1>>}

NextShared ==
    \/ \E x \in 0 .. Width - 1, y \in 0 .. Height - 1 :
          edits < SharedEdits /\ astar2.pc = "idle" /\ SetObstacle(x, y)
    \/ \E s \in Corners, g \in Corners : FindPath(s, g)
    \/ LoopIter
    \/ LoopExit
    \/ \E s \in Corners, g \in Corners : FindPath2(s, g)
    \/ LoopIter2
    \/ LoopExit2

SpecShared == InitShared /\ [][NextShared]_vars

\* Queue: a caller drives a PriorityQueue directly.  It owns two Node objects
\* for each of QueueCells positions, <<x, 0, 1>> and <<x, 0, 2>>, with the F
\* values the table gives and a parent object of their own, and never writes
\* to a node afterwards.
QueueNodes == {<<x, 0, k>> : x \in 0 .. QueueCells - 1, k \in 1 .. 2}

QueueF == {1 * StraightBase, 2 * StraightBase, 3 * StraightBase}

QueueNode(n) ==
    LET f == IF n[3] = 1 THEN 3 - (n[1] % 2) ELSE 1 + ((n[1] \div 2) % 2)
    IN  [NewNode(n[1], n[2]) EXCEPT !.F = f * StraightBase,
                                    !.G = (f - 1) * StraightBase + n[3],
                                    !.H = StraightBase - n[3],
                                    !.Parent = <<-1, -1, n[3]>>]

InitQueue ==
    /\ Width = 0
    /\ Height = 0
    /\ MovementType = FourWay
    /\ node = [n \in QueueNodes |-> QueueNode(n)]
    /\ grid = NilGrid
    /\ heuristic = "Manhattan"
    /\ openSet = NewPriorityQueue
    /\ closedSet = {}
    /\ pc = "idle"
    /\ start = NilNode
    /\ goal = NilNode
    /\ current = NilNode
    /\ retPath = NilPath
    /\ retErr = ErrNone
    /\ gridErr = ErrNone
    /\ edits = 0
    /\ astar2 = NewAStar
    /\ call = NoCall
    /\ calls = 0
    /\ queued = {}

NextQueue ==
    \/ \E n \in QueueNodes : PushNodeCall(n)
    \/ PopNodeCall
    \/ \E x \in 0 .. QueueCells, newF \in QueueF : UpdatePriorityCall(x, 0, newF)
    \/ ClearCall
    \/ \E x \in 0 .. QueueCells : ContainsCall(x, 0)
    \/ \E n \in QueueNodes : ContainsNodeCall(n)
    \/ \E x \in 0 .. QueueCells : GetNodeCall(x, 0)
    \/ PeekCall
    \/ IsEmptyCall

SpecQueue == InitQueue /\ [][NextQueue]_vars

\* Grid: a caller builds a Grid with NewGrid, edits obstacles and cost
\* multipliers, and asks for neighbors and movement costs.
InitGrid ==
    /\ Width = 0
    /\ Height = 0
    /\ MovementType = FourWay
    /\ node = EmptyMap
    /\ grid = NilGrid
    /\ heuristic = "Manhattan"
    /\ openSet = NewPriorityQueue
    /\ closedSet = {}
    /\ pc = "idle"
    /\ start = NilNode
    /\ goal = NilNode
    /\ current = NilNode
    /\ retPath = NilPath
    /\ retErr = ErrNone
    /\ gridErr = ErrNone
    /\ edits = 0
    /\ astar2 = NewAStar
    /\ call = NoCall
    /\ calls = 0
    /\ queued = {}

\* the nodes movement costs are asked from: a corner and, on a grid of 3x3
\* or more, a cell with all eight cells around it; cost multipliers are
\* written to these cells and the cells around them
CostOrigins == {<<0, 0>>, <<1, 1>>}

NextGrid ==
    \/ \E w \in -1 .. GridW, h \in -1 .. GridH, mt \in MovementTypes : NewGridCall(w, h, mt)
    \/ \E x \in -1 .. Width, y \in -1 .. Height :
          Width > 0 /\ edits < GridEdits /\ SetObstacle(x, y)
    \/ \E x \in -1 .. Width, y \in -1 .. Height :
          Width > 0 /\ edits < GridEdits /\ ClearObstacle(x, y)
    \/ \E x \in 0 .. 2, y \in 0 .. 2, c \in CostValues :
          edits < GridEdits /\ SetCost(x, y, c)
    \/ \E x \in 0 .. Width - 1, y \in 0 .. Height - 1 : GetNeighborsCall(x, y)
    \/ \E from \in CostOrigins, to \in DOMAIN node :
          OneStep(EightWay, from, to) /\ GetCostCall(from, to)

SpecGrid == InitGrid /\ [][NextGrid]_vars

\* Cells: a caller holds a CellsW x CellsH grid and reads and writes its
\* cells, in bounds and one step outside, CellEdits writes at most.
InitCells == InitWith(CellsW, CellsH, FourWay, UniformTerrain(CellsW, CellsH))

Around == (-1 .. Width) \X (-1 .. Height)

NextCells ==
    \/ \E c \in Around : GridGetNodeCall(c[1], c[2])
    \/ MarkObstacle
    \/ \E c \in Around : SetObstacleCall(c[1], c[2])
    \/ \E c \in Around : ClearObstacleCall(c[1], c[2])
    \/ \E c \in Around : IsObstacleCall(c[1], c[2])

SpecCells == InitCells /\ [][NextCells]_vars

\* Reset: a ResetW x ResetH grid whose first node may be an obstacle and may
\* have a cost multiplier; a caller writes search state into nodes, at most
\* ResetEdits times, and calls Grid.Reset and Node.Reset.
InitReset ==
    \E mt \in MovementTypes, c \in CostValues, o \in BOOLEAN :
        /\ Width = ResetW
        /\ Height = ResetH
        /\ MovementType = mt
        /\ node = [n \in Cells(ResetW, ResetH) |->
                     IF n = <<0, 0>>
                     THEN [NewNode(0, 0) EXCEPT !.Cost = c, !.IsObstacle = o]
                     ELSE NewNode(n[1], n[2])]
        /\ grid = NilGrid
        /\ heuristic = "Manhattan"
        /\ openSet = NewPriorityQueue
        /\ closedSet = {}
        /\ pc = "idle"
        /\ start = NilNode
        /\ goal = NilNode
        /\ current = NilNode
        /\ retPath = NilPath
        /\ retErr = ErrNone
        /\ gridErr = ErrNone
        /\ edits = 0
        /\ astar2 = NewAStar
        /\ call = NoCall
        /\ calls = 0
        /\ queued = {}

NextReset ==
    \/ \E n \in DOMAIN node : SetScores(n, <<0, 0>>)
    \/ GridResetCall
    \/ \E n \in DOMAIN node : NodeResetCall(n)

SpecReset == InitReset /\ [][NextReset]_vars

\* Estimates: on an EstW x EstH grid of either movement model with unit cost
\* multipliers and at most EstEdits obstacles, the distance heuristics are
\* asked for their estimate between two of the grid's nodes.
InitEstimate ==
    \E mt \in MovementTypes : InitWith(EstW, EstH, mt, UniformTerrain(EstW, EstH))

DistanceEstimates == {"Manhattan", "Euclidean", "DiagonalWithCost"}

NextEstimate ==
    \/ \E x \in 0 .. Width - 1, y \in 0 .. Height - 1 : edits < EstEdits /\ SetObstacle(x, y)
    \/ \E h \in DistanceEstimates, a \in DOMAIN node, b \in DOMAIN node : HeuristicCall(h, a, b)

SpecEstimate == InitEstimate /\ [][NextEstimate]_vars

\* Uniform-cost search: the pathfinder is configured with the grid and the
\* Zero heuristic; the caller has written cost multipliers into the nodes of
\* the third column and places at most DijkstraEdits obstacles.
HeavyCosts == {1, 3, 4}

HeavyCells == {<<2, 0>>, <<2, 1>>}

InitDijkstra ==
    \E w \in 1 .. DijkstraW, h \in 1 .. DijkstraH, mt \in MovementTypes :
        \E m \in [HeavyCells \cap Cells(w, h) -> HeavyCosts] :
            /\ Width = w
            /\ Height = h
            /\ MovementType = mt
            /\ node = [c \in Cells(w, h) |->
                         [NewNode(c[1], c[2]) EXCEPT
                             !.Cost = IF c \in DOMAIN m THEN m[c] ELSE DefaultCost]]
            /\ grid = TheGrid
            /\ heuristic = "Zero"
            /\ openSet = NewPriorityQueue
            /\ closedSet = {}
            /\ pc = "idle"
            /\ start = NilNode
            /\ goal = NilNode
            /\ current = NilNode
            /\ retPath = NilPath
            /\ retErr = ErrNone
            /\ gridErr = ErrNone
            /\ edits = 0
            /\ astar2 = NewAStar
            /\ call = NoCall
            /\ calls = 0
            /\ queued = {}

NextDijkstra ==
    \/ \E x \in 0 .. Width - 1, y \in 0 .. Height - 1 :
          edits < DijkstraEdits /\ SetObstacle(x, y)
    \/ \E s \in DOMAIN node, g \in DOMAIN node : FindPath(s, g)
    \/ LoopIter
    \/ LoopExit

SpecDijkstra == InitDijkstra /\ [][NextDijkstra]_vars

\* Heuristics: a caller looks heuristic functions up by name and applies the
\* function it got to nodes made with NewNode (k = 1) and NewObstacle (k = 2)
\* at coordinates from -HeurRange to HeurRange.
HeuristicNodes ==
    [n \in (-HeurRange .. HeurRange) \X (-HeurRange .. HeurRange) \X {1, 2} |->
        [NewNode(n[1], n[2]) EXCEPT !.IsObstacle = (n[3] = 2)]]

LookupNames ==
    {GetSupportedHeuristics[k] : k \in 1 .. Len(GetSupportedHeuristics)}
        \cup {"invalid", "", "Manhattan", "euclidean squared", "dijkstra"}

InitHeuristic ==
    /\ Width = 0
    /\ Height = 0
    /\ MovementType = FourWay
    /\ node = HeuristicNodes
    /\ grid = NilGrid
    /\ heuristic = NilHeuristic
    /\ openSet = NewPriorityQueue
    /\ closedSet = {}
    /\ pc = "idle"
    /\ start = NilNode
    /\ goal = NilNode
    /\ current = NilNode
    /\ retPath = NilPath
    /\ retErr = ErrNone
    /\ gridErr = ErrNone
    /\ edits = 0
    /\ astar2 = NewAStar
    /\ call = NoCall
    /\ calls = 0
    /\ queued = {}

NextHeuristic ==
    \/ \E name \in LookupNames : GetHeuristicByNameCall(name)
    \/ GetSupportedHeuristicsCall
    \/ \E a \in DOMAIN node, b \in DOMAIN node :
          heuristic # NilHeuristic /\ HeuristicCall(heuristic, a, b)

SpecHeuristic == InitHeuristic /\ [][NextHeuristic]_vars

\* Calls that return early: one AStar/Grid pair is used for call after call,
\* with nil arguments, the heuristic taken away and put back, and obstacles
\* set and cleared in between.
InitEarly ==
    \E w \in 1 .. EarlyW, h \in 1 .. EarlyH, mt \in MovementTypes :
        InitWith(w, h, mt, UniformTerrain(w, h))

NextEarly ==
    \/ SetGrid
    \/ \E h \in {"Manhattan", NilHeuristic} : SetHeuristic(h)
    \/ \E x \in 0 .. Width - 1, y \in 0 .. Height - 1 : edits < EarlyEdits /\ SetObstacle(x, y)
    \/ \E s \in DOMAIN node \cup {NilNode}, g \in DOMAIN node \cup {NilNode} : FindPath(s, g)
    \/ LoopIter
    \/ LoopExit
    \/ Return

SpecEarly == InitEarly /\ [][NextEarly]_vars

\* Nodes of the caller's own: besides the grid's nodes there are nodes made
\* with NewNode (k = 1) and NewObstacle (k = 2) at every position of the grid
\* and of the ring around it; FindPath is called with any two of all these.
ForeignNodes(w, h) ==
    [n \in (-1 .. w) \X (-1 .. h) \X {1, 2} |->
        [NewNode(n[1], n[2]) EXCEPT !.IsObstacle = (n[3] = 2)]]

InitForeign ==
    \E w \in 1 .. ForeignW, h \in 1 .. ForeignH, mt \in MovementTypes :
        /\ Width = w
        /\ Height = h
        /\ MovementType = mt
        /\ node = [c \in Cells(w, h) |-> NewNode(c[1], c[2])] @@ ForeignNodes(w, h)
        /\ grid = TheGrid
        /\ heuristic = "Manhattan"
        /\ openSet = NewPriorityQueue
        /\ closedSet = {}
        /\ pc = "idle"
        /\ start = NilNode
        /\ goal = NilNode
        /\ current = NilNode
        /\ retPath = NilPath
        /\ retErr = ErrNone
        /\ gridErr = ErrNone
        /\ edits = 0
        /\ astar2 = NewAStar
        /\ call = NoCall
        /\ calls = 0
        /\ queued = {}

NextForeign ==
    \/ \E x \in 0 .. Width - 1, y \in 0 .. Height - 1 :
          edits < ForeignEdits /\ SetObstacle(x, y)
    \/ \E s \in DOMAIN node, g \in DOMAIN node : FindPath(s, g)
    \/ LoopIter
    \/ LoopExit

SpecForeign == InitForeign /\ [][NextForeign]_vars

\* ------------------------------------------- notions the claims refer to
FreeCells == {c \in Cells(Width, Height) : ~node[c].IsObstacle}

\* the free cells reachable from the cells of `seen` through free cells
RECURSIVE ReachableFrom(_)
ReachableFrom(seen) ==
    LET more == {c \in FreeCells \ seen : \E a \in seen : OneStep(MovementType, a, c)}
    IN  IF more = {} THEN seen ELSE ReachableFrom(seen \cup more)

\* the call was made with both nodes present and the pathfinder configured
Configured == start # NilNode /\ goal # NilNode /\ grid # NilGrid /\ heuristic # NilHeuristic

Returned == pc = "done"

\* C2: for free start # goal, FindPath returns a route exactly when the goal
\* is reachable from the start, and otherwise the no-path error with a nil route
C2_Completeness ==
    (Returned /\ Configured /\ start # goal /\ start \in FreeCells /\ goal \in FreeCells)
        => IF goal \in ReachableFrom({start})
           THEN retErr = ErrNone /\ ~retPath.isNil
           ELSE retErr = ErrNoPath /\ retPath.isNil

C2_Witness ==
    /\ Returned /\ Configured /\ start \in FreeCells /\ goal \in FreeCells
    /\ retErr = ErrNoPath
    /\ Cardinality(closedSet) >= 2
    /\ Cardinality(FreeCells) >= 4

\* C3: a returned route starts at start, ends at goal, holds no obstacle cell
\* and moves one step of the movement model between consecutive elements
C3_RouteValid ==
    (Returned /\ retErr = ErrNone)
        => LET r == retPath.nodes
           IN  /\ ~retPath.isNil
               /\ Len(r) >= 1
               /\ r[1] = start
               /\ r[Len(r)] = goal
               /\ \A k \in 1 .. Len(r) : r[k] \in FreeCells
               /\ \A k \in 1 .. Len(r) - 1 : OneStep(MovementType, r[k], r[k + 1])

C3_Witness ==
    /\ Returned /\ retErr = ErrNone
    /\ Len(retPath.nodes) >= 4
    /\ Cardinality(FreeCells) < Width * Height

\* C7: a call returns either a non-empty route and no error, or a nil route
\* and an error
C7_NoPartialResult ==
    Returned => \/ (retErr = ErrNone /\ ~retPath.isNil /\ Len(retPath.nodes) >= 1)
                \/ (retErr # ErrNone /\ retPath.isNil)

C7_Witness == Returned /\ retErr = ErrNoPath /\ retPath.isNil /\ closedSet # {}

\* C8: with the pathfinder configured, an obstacle start or goal gives the
\* blocked-endpoint error and no route, also when start equals goal
C8_BlockedEndpoint ==
    (Returned /\ Configured /\ (node[start].IsObstacle \/ node[goal].IsObstacle))
        => (retErr = ErrBlocked /\ retPath.isNil)

C8_Witness ==
    /\ Returned /\ Configured
    /\ start = goal
    /\ node[start].IsObstacle
    /\ retErr = ErrBlocked

\* C9: a nil start or goal, an unset grid or a nil heuristic gives the
\* invalid-input error and no route, whatever the endpoints are
C9_InvalidInput ==
    (Returned /\ ~Configured) => (retErr = ErrInvalidInput /\ retPath.isNil)

C9_Witness ==
    /\ Returned
    /\ heuristic = NilHeuristic
    /\ grid = TheGrid
    /\ start # NilNode
    /\ start = goal
    /\ node[start].IsObstacle
    /\ retErr = ErrInvalidInput

\* C10: with the pathfinder configured, FindPath(n, n) for a free node n
\* returns the route <<n>> and no error
C10_SameStartGoal ==
    (Returned /\ Configured /\ start = goal /\ ~node[start].IsObstacle)
        => (retErr = ErrNone /\ retPath = PathOf(<<start>>))

C10_Witness ==
    /\ Returned /\ Configured
    /\ start = goal
    /\ ~node[start].IsObstacle
    /\ Len(retPath.nodes) = 1
    /\ Width * Height > 1

\* the summed movement cost along a sequence of nodes
RECURSIVE RouteCost(_, _)
RouteCost(r, k) ==
    IF k >= Len(r) THEN 0
    ELSE GetCost(node, r[k], r[k + 1]) + RouteCost(r, k + 1)

Unreached == 2000 * StraightBase

\* one round of relaxation of the cheapest known costs from the start
RelaxOnce(dist) ==
    [c \in FreeCells |->
        LET via == {dist[a] + GetCost(node, a, c) :
                      a \in {b \in FreeCells : dist[b] < Unreached /\ OneStep(MovementType, b, c)}}
            best == IF via = {} THEN Unreached ELSE CHOOSE v \in via : \A u \in via : v <= u
        IN  IF best < dist[c] THEN best ELSE dist[c]]

RECURSIVE RelaxAll(_)
RelaxAll(dist) ==
    LET d2 == RelaxOnce(dist)
    IN  IF d2 = dist THEN dist ELSE RelaxAll(d2)

\* the minimum summed movement cost of a route from s to every free cell
MinCostFrom(s) == RelaxAll([c \in FreeCells |-> IF c = s THEN 0 ELSE Unreached])

\* the configured heuristic is consistent (and so admissible) on this grid
\* towards g: it is 0 at g and never drops by more than the cost of a move
ConsistentHeuristic(g) ==
    /\ ApplyHeuristic(heuristic, node, g, g) = 0
    /\ \A a \in FreeCells, b \in FreeCells :
          OneStep(MovementType, a, b)
              => ApplyHeuristic(heuristic, node, a, g)
                   <= GetCost(node, a, b) + ApplyHeuristic(heuristic, node, b, g)

\* C1: with a consistent heuristic the returned route costs no more than any
\* other route from start to goal
C1_Optimal ==
    (Returned /\ Configured /\ retErr = ErrNone /\ start # goal /\ ConsistentHeuristic(goal))
        => RouteCost(retPath.nodes, 1) <= MinCostFrom(start)[goal]

\* C4: the node an iteration extracts has an F no greater than the F of every
\* node that stays in the open set
C4_ExtractMin ==
    [][(pc = "loop" /\ ~IsEmpty(openSet))
          => LET rest == PopNode(openSet, node).pq.nodes
             IN  \A k \in 1 .. Len(rest) : node[current'].F <= node[rest[k]].F]_vars

\* a grid and pathfinder built afresh with the present obstacles, cost
\* multipliers, movement model and heuristic
FreshNodes ==
    [c \in Cells(Width, Height) |->
        [NewNode(c[1], c[2]) EXCEPT !.IsObstacle = node[c].IsObstacle, !.Cost = node[c].Cost]]

RECURSIVE RunLoop(_, _, _, _)
RunLoop(nd, pq, closed, g) ==
    IF IsEmpty(pq) THEN [path |-> NilPath, err |-> ErrNoPath]
    ELSE LET b == LoopBody(heuristic, Width, Height, MovementType, nd, pq, closed, g)
         IN  IF b.returns THEN [path |-> b.path, err |-> ErrNone]
             ELSE RunLoop(b.node, b.openSet, b.closedSet, g)

\* what FindPath(s, g) returns on the fresh pair
FreshOutcome(s, g) ==
    LET e == EarlyReturn(grid, heuristic, FreshNodes, s, g)
    IN  IF e.returns THEN [path |-> e.path, err |-> e.err]
        ELSE LET sd == SeedStart(grid, heuristic, Width, Height, FreshNodes, NewPriorityQueue, s, g)
             IN  RunLoop(sd.node, sd.openSet, sd.closedSet, g)

\* C5: every call on a reused AStar/Grid pair returns what the same call
\* returns on a freshly built pair with the same obstacles and settings
C5_ResetCorrect ==
    Returned => (retPath = FreshOutcome(start, goal).path /\ retErr = FreshOutcome(start, goal).err)

\* a call that ran the search on a pair left dirty by an earlier search
C5_Witness ==
    /\ Returned
    /\ closedSet # {}
    /\ \E c \in DOMAIN node : c \notin closedSet /\ c \notin DOMAIN openSet.nodeIndex
                              /\ c # goal /\ node[c].Parent # NilNode

\* C6: a FindPath call cannot run forever: in every state of the main loop
\* the next iteration either returns, with a parent chain that ends, or
\* closes a cell of the grid that was not closed before (so at most
\* Width * Height iterations do not return)
C6_Terminates ==
    /\ pc \in {"idle", "loop", "done"}
    /\ (pc = "loop" /\ ~IsEmpty(openSet))
          => LET b == LoopBody(heuristic, Width, Height, MovementType,
                               node, openSet, closedSet, goal)
             IN  IF b.returns THEN b.ends
                 ELSE /\ b.closedSet \subseteq Cells(Width, Height)
                      /\ closedSet \subseteq b.closedSet
                      /\ closedSet # b.closedSet

\* a call that returned after several iterations of the main loop
C6_Witness == Returned /\ Cardinality(closedSet) >= 3 /\ heuristic = "EuclideanSquared"

\* the grid has no obstacle and every cost multiplier is 1.0
PlainGrid ==
    \A c \in Cells(Width, Height) : ~node[c].IsObstacle /\ node[c].Cost = DefaultCost

\* C11: on an obstacle-free grid with FourWay movement, unit multipliers and
\* the Manhattan heuristic, the route returned from (0, 0) to
\* (Width-1, Height-1) has exactly Width + Height - 1 nodes
C11_CornerRouteLength ==
    (/\ Returned /\ Configured
     /\ MovementType = FourWay /\ heuristic = "Manhattan" /\ PlainGrid
     /\ start = <<0, 0>> /\ goal = <<Width - 1, Height - 1>>)
        => (retErr = ErrNone /\ ~retPath.isNil /\ Len(retPath.nodes) = Width + Height - 1)

\* the 5x5 case: a route of 9 nodes
C11_Witness ==
    /\ Returned /\ Configured
    /\ MovementType = FourWay /\ heuristic = "Manhattan" /\ PlainGrid
    /\ Width = 5 /\ Height = 5
    /\ start = <<0, 0>> /\ goal = <<4, 4>>
    /\ Len(retPath.nodes) = 9

\* route r is a valid route from s to g on the present grid
ValidRoute(r, s, g) ==
    /\ Len(r) >= 1
    /\ r[1] = s
    /\ r[Len(r)] = g
    /\ \A k \in 1 .. Len(r) : r[k] \in FreeCells
    /\ \A k \in 1 .. Len(r) - 1 : OneStep(MovementType, r[k], r[k + 1])

\* path and err are a right answer to FindPath(s, g) on the present grid
SoundOutcome(s, g, path, err) ==
    IF node[s].IsObstacle \/ node[g].IsObstacle THEN err = ErrBlocked /\ path.isNil
    ELSE IF g \in ReachableFrom({s}) THEN err = ErrNone /\ ~path.isNil /\ ValidRoute(path.nodes, s, g)
    ELSE err = ErrNoPath /\ path.isNil

\* the outcome of the call on the first / second AStar is the one the call
\* produces when run alone
SameAsAlone1 ==
    /\ pc = "done"
    /\ retPath = FreshOutcome(start, goal).path
    /\ retErr = FreshOutcome(start, goal).err
    /\ SoundOutcome(start, goal, retPath, retErr)

SameAsAlone2 ==
    /\ astar2.pc = "done"
    /\ astar2.retPath = FreshOutcome(astar2.start, astar2.goal).path
    /\ astar2.retErr = FreshOutcome(astar2.start, astar2.goal).err
    /\ SoundOutcome(astar2.start, astar2.goal, astar2.retPath, astar2.retErr)

\* C12: two FindPath calls on AStar instances sharing one Grid are safe only
\* when serialized: a call that ran with no step of the other call in between
\* ends with the outcome it produces alone, and the witness is an interleaving
\* in which a call returns a different outcome, an invalid route
C12_SerializedSafe ==
    /\ (pc \in {"done", "reconstruct"} /\ astar2.pc = "idle") => SameAsAlone1
    /\ (astar2.pc \in {"done", "reconstruct"} /\ (pc = "idle" \/ astar2.peerAtCall = "done"))
          => SameAsAlone2

C12_Witness ==
    /\ pc = "done"
    /\ astar2.pc \in {"loop", "done"}
    /\ retErr = ErrNone
    /\ goal \in ReachableFrom({start})
    /\ retPath # FreshOutcome(start, goal).path
    /\ ~ValidRoute(retPath.nodes, start, goal)

\* the step is a call of the named queue operation
QueueStep(op) == calls' = calls + 1 /\ call'.op = op

\* C13: PopNode on a non-empty queue removes and returns a node whose F is
\* no greater than the F of every node that remains, and two pops in a row
\* return F values in non-decreasing order
C13_PopMinimum ==
    [][(QueueStep("PopNode") /\ ~IsEmpty(openSet))
          => /\ call'.node # NilNode
             /\ call'.node \notin {openSet'.nodes[k] : k \in 1 .. Len(openSet'.nodes)}
             /\ \A k \in 1 .. Len(openSet'.nodes) :
                   node'[call'.node].F <= node'[openSet'.nodes[k]].F
             /\ (call.op = "PopNode" /\ call.node # NilNode)
                   => node[call.node].F <= node'[call'.node].F]_vars

\* a pop that left a node behind and returned a node whose F was changed
\* while it was queued
C13_Witness ==
    /\ call.op = "PopNode"
    /\ call.node # NilNode
    /\ PQLen(openSet) >= 1
    /\ node[call.node].F # QueueNode(call.node).F

\* the positions of the nodes held in the queue's slice
QueuedPositions == {coordinate(node, openSet.nodes[k]) : k \in 1 .. Len(openSet.nodes)}

\* C14: the queue holds at most one entry per position, Len is the number of
\* distinct queued positions, and the index maps exactly the queued positions,
\* each to the slot that holds the node at that position
C14_IndexConsistent ==
    /\ \A j \in 1 .. Len(openSet.nodes), k \in 1 .. Len(openSet.nodes) :
          coordinate(node, openSet.nodes[j]) = coordinate(node, openSet.nodes[k]) => j = k
    /\ PQLen(openSet) = Cardinality(QueuedPositions)
    /\ PQLen(openSet) = Cardinality(queued)
    /\ DOMAIN openSet.nodeIndex = QueuedPositions
    /\ \A c \in DOMAIN openSet.nodeIndex :
          /\ openSet.nodeIndex[c] \in 0 .. PQLen(openSet) - 1
          /\ coordinate(node, openSet.nodes[openSet.nodeIndex[c] + 1]) = c

\* a pop at the end of a run of calls that left two nodes queued, in order
C14_Witness ==
    /\ call.op = "PopNode"
    /\ call.node # NilNode
    /\ PQLen(openSet) = 2
    /\ node[openSet.nodes[1]].F < node[openSet.nodes[2]].F
    /\ calls = MaxCalls

\* every queued node has an F no smaller than the F of the node in its parent slot
HeapOrdered(pq, nd) ==
    \A i \in 1 .. PQLen(pq) - 1 : nd[pq.nodes[((i - 1) \div 2) + 1]].F <= nd[pq.nodes[i + 1]].F

\* C15: PushNode inserts a node whose position is not queued (Len grows by
\* one); overwrites G, H, F and Parent of the stored entry when the incoming F
\* is strictly lower (Len unchanged, heap order restored); and changes nothing
\* when the incoming F is greater or equal
C15_PushNode ==
    [][QueueStep("PushNode")
          => LET n == call'.node
                 c == coordinate(node, n)
                 e == GetNode(openSet, c[1], c[2])
             IN  IF e = NilNode
                 THEN /\ PQLen(openSet') = PQLen(openSet) + 1
                      /\ GetNode(openSet', c[1], c[2]) = n
                      /\ node' = node
                      /\ HeapOrdered(openSet', node')
                 ELSE IF node[n].F < node[e].F
                 THEN /\ PQLen(openSet') = PQLen(openSet)
                      /\ GetNode(openSet', c[1], c[2]) = e
                      /\ node'[e].G = node[n].G
                      /\ node'[e].H = node[n].H
                      /\ node'[e].F = node[n].F
                      /\ node'[e].Parent = node[n].Parent
                      /\ \A m \in DOMAIN node \ {e} : node'[m] = node[m]
                      /\ HeapOrdered(openSet', node')
                 ELSE /\ node' = node
                      /\ openSet' = openSet]_vars

\* a push that improved the stored entry of its position, which moved to the
\* front of a queue of three
C15_Witness ==
    /\ call.op = "PushNode"
    /\ PQLen(openSet) = 3
    /\ LET e == GetNode(openSet, call.x, call.y)
       IN  /\ e # call.node
           /\ node[e].F = node[call.node].F
           /\ node[e].Parent = node[call.node].Parent
           /\ Peek(openSet) = e
\* the queue operations that only read
QueryOps == {"Contains", "ContainsNode", "GetNode", "Peek", "IsEmpty"}

\* Contains answers true exactly for the positions pushed and neither popped
\* nor cleared since
MembershipExact(pq, members) ==
    \A x \in -1 .. QueueCells, y \in -1 .. 1 : Contains(pq, x, y) <=> <<x, y>> \in members

\* C16: Contains(x, y) holds exactly when a node at (x, y) was pushed and not
\* popped or cleared since; Contains, ContainsNode, GetNode, Peek and IsEmpty
\* leave the queue and its nodes as they were and answer for that queue; after
\* Clear the queue is empty and Contains is false for every position
C16_Membership ==
    [][/\ MembershipExact(openSet, queued)
       /\ MembershipExact(openSet', queued')
       /\ call'.op \in QueryOps
             => /\ openSet' = openSet
                /\ node' = node
                /\ call'.op = "Contains" => call'.ok = (<<call'.x, call'.y>> \in queued)
                /\ call'.op = "ContainsNode" => call'.ok = (<<call'.x, call'.y>> \in queued)
                /\ call'.op = "GetNode" => call'.ok = (<<call'.x, call'.y>> \in queued)
                /\ call'.op = "IsEmpty" => call'.ok = (queued = {})
                /\ call'.op = "Peek" => call'.ok = (queued # {})
       /\ QueueStep("Clear")
             => /\ IsEmpty(openSet')
                /\ PQLen(openSet') = 0
                /\ \A x \in -1 .. QueueCells, y \in -1 .. 1 : ~Contains(openSet', x, y)]_vars

\* Contains answered false, with other nodes queued, for a position whose
\* node had been pushed, changed in the queue and then removed
C16_Witness ==
    /\ call.op = "Contains"
    /\ ~call.ok
    /\ PQLen(openSet) >= 1
    /\ <<call.x, 0, 1>> \in DOMAIN node
    /\ node[<<call.x, 0, 1>>].F # QueueNode(<<call.x, 0, 1>>).F

\* the queue is in the state of a new queue
LikeNew(pq) == pq.nodes = <<>> /\ DOMAIN pq.nodeIndex = {} /\ PQLen(pq) = 0 /\ IsEmpty(pq)

\* C17: on an empty queue PopNode and Peek return nil and leave the queue in
\* the state of a new queue; a node pushed on it is the one the next PopNode
\* returns, which empties the queue again
C17_EmptyQueue ==
    [][/\ (QueueStep("PopNode") /\ IsEmpty(openSet))
             => (call'.node = NilNode /\ ~call'.ok /\ LikeNew(openSet') /\ node' = node)
       /\ (call'.op = "Peek" /\ call' # call /\ IsEmpty(openSet))
             => (call'.node = NilNode /\ ~call'.ok /\ LikeNew(openSet') /\ node' = node)
       /\ (IsEmpty(openSet) /\ QueueStep("PushNode"))
             => (PQLen(openSet') = 1 /\ Peek(openSet') = call'.node)
       /\ (QueueStep("PopNode") /\ call.op = "PushNode" /\ PQLen(openSet) = 1
              /\ Peek(openSet) = call.node)
             => (call'.node = call.node /\ LikeNew(openSet'))]_vars

\* PopNode returned nil on a queue that had been used and emptied before
C17_Witness ==
    /\ call.op = "PopNode"
    /\ call.node = NilNode
    /\ IsEmpty(openSet)
    /\ calls >= 4
    /\ \E n \in DOMAIN node : n \in QueueNodes /\ node[n].F # QueueNode(n).F

\* the direction order the neighbors are claimed to come in
ClaimedOrder(mt) ==
    LET Up == <<0, -1>>
        Right == <<1, 0>>
        Down == <<0, 1>>
        Left == <<-1, 0>>
        Plus(a, b) == <<a[1] + b[1], a[2] + b[2]>>
    IN  IF mt = FourWay THEN <<Up, Right, Down, Left>>
        ELSE <<Up, Plus(Up, Right), Right, Plus(Down, Right),
               Down, Plus(Down, Left), Left, Plus(Up, Left)>>

\* the place of the step from cell a to cell b in the claimed order (0 if none)
Rank(mt, a, b) ==
    LET o == ClaimedOrder(mt)
        ks == {k \in 1 .. Len(o) : o[k] = <<b[1] - a[1], b[2] - a[2]>>}
    IN  IF ks = {} THEN 0 ELSE CHOOSE k \in ks : TRUE

\* r holds exactly the in-bounds non-obstacle cells one step from n, each
\* once, in the claimed direction order (strictly rising places in that
\* order leave no cell twice)
NeighborsAsClaimed(n, r) ==
    LET o == ClaimedOrder(MovementType)
        around == {<<n[1] + o[k][1], n[2] + o[k][2]>> : k \in 1 .. Len(o)}
    IN  /\ {r[k] : k \in 1 .. Len(r)}
              = {c \in around : IsValidPosition(Width, Height, c[1], c[2])
                                  /\ ~node[c].IsObstacle}
        /\ \A k \in 1 .. Len(r) - 1 :
              /\ Rank(MovementType, n, r[k]) > 0
              /\ Rank(MovementType, n, r[k]) < Rank(MovementType, n, r[k + 1])

NeighborsOf(n) == GetNeighbors(Width, Height, MovementType, node, n)

NoObstacles == \A c \in Cells(Width, Height) : ~node[c].IsObstacle

InteriorCells == {c \in Cells(Width, Height) :
                    c[1] > 0 /\ c[1] < Width - 1 /\ c[2] > 0 /\ c[2] < Height - 1}

CornerCells == {c \in Cells(Width, Height) :
                  c[1] \in {0, Width - 1} /\ c[2] \in {0, Height - 1}}

\* C18 as stated: whenever the neighbors of a node are asked for, they are as
\* claimed; on an obstacle-free grid an interior cell has 4 / 8 of them and a
\* corner cell of a FourWay grid 2
C18_AsStated ==
    call.op = "GetNeighbors" =>
        LET n == call.node
            r == NeighborsOf(n)
        IN  /\ NeighborsAsClaimed(n, r)
            /\ (NoObstacles /\ n \in InteriorCells)
                  => Len(r) = IF MovementType = FourWay THEN 4 ELSE 8
            /\ (NoObstacles /\ MovementType = FourWay /\ n \in CornerCells)
                  => Len(r) = 2

\* C18, amended: whenever the neighbors of a node are asked for, GetNeighbors
\* returns exactly the in-bounds non-obstacle cells one step away, each once,
\* in the fixed direction order; on an obstacle-free grid an interior cell has
\* 4 / 8 neighbors, and a corner cell of a FourWay grid at least 2 wide and
\* 2 high has 2
C18_Neighbors ==
    call.op = "GetNeighbors" =>
        LET n == call.node
            r == NeighborsOf(n)
        IN  /\ NeighborsAsClaimed(n, r)
            /\ (NoObstacles /\ n \in InteriorCells)
                  => Len(r) = IF MovementType = FourWay THEN 4 ELSE 8
            /\ (NoObstacles /\ MovementType = FourWay /\ Width >= 2 /\ Height >= 2
                   /\ n \in CornerCells)
                  => Len(r) = 2

\* the neighbors of the middle cell of a 3x3 EightWay grid with one obstacle
\* next to it were asked for
C18_Witness ==
    /\ call.op = "GetNeighbors"
    /\ MovementType = EightWay
    /\ Width = 3 /\ Height = 3
    /\ call.node = <<1, 1>>
    /\ call.val = NeighborsOf(<<1, 1>>)
    /\ Len(call.val) = 7
    /\ ~NoObstacles

\* C19: GetCost(from, to) is the base cost times the destination's cost
\* multiplier, the base cost being 1.0 for an axis-aligned move and the
\* square root of 2 (1.41421356..., which lies between diagonalCost and
\* diagonalCost + 1 in units of 10^-6) for a diagonal move
C19_GetCost ==
    \A from \in DOMAIN node, to \in DOMAIN node :
        OneStep(EightWay, from, to)
            => LET cost == GetCost(node, from, to)
                   m == node[to].Cost
               IN  IF from[1] = to[1] \/ from[2] = to[2]
                   THEN cost = StraightBase * m
                   ELSE diagonalCost * m <= cost /\ cost <= (diagonalCost + 1) * m

\* C20: NewGrid(width, height, movement) fails with the dimension error and
\* returns no grid exactly when width <= 0 or height <= 0; otherwise every
\* pair of [0, width) x [0, height) has one node, with those coordinates, not
\* an obstacle, with cost multiplier 1.0, zero G, H and F and no parent
C20_NewGrid ==
    [][(call = NoCall /\ call'.op = "NewGrid")
          => LET w == call'.x
                 h == call'.y
             IN  /\ (~call'.ok) <=> (w <= 0 \/ h <= 0)
                 /\ (~call'.ok) <=> (call'.err = ErrDimensions)
                 /\ call'.ok <=> (call'.err = ErrNone)
                 /\ (~call'.ok) => (DOMAIN node' = {} /\ Width' = 0 /\ Height' = 0)
                 /\ call'.ok
                       => /\ Width' = w
                          /\ Height' = h
                          /\ MovementType' \in MovementTypes
                          /\ DOMAIN node' = {<<x, y>> : x \in 0 .. w - 1, y \in 0 .. h - 1}
                          /\ \A x \in 0 .. w - 1, y \in 0 .. h - 1 :
                                /\ node'[<<x, y>>].X = x
                                /\ node'[<<x, y>>].Y = y
                                /\ ~node'[<<x, y>>].IsObstacle
                                /\ node'[<<x, y>>].Cost = 1
                                /\ node'[<<x, y>>].G = 0
                                /\ node'[<<x, y>>].H = 0
                                /\ node'[<<x, y>>].F = 0
                                /\ node'[<<x, y>>].Parent = NilNode]_vars

\* NewGrid refused a zero width
C20_Witness ==
    /\ call.op = "NewGrid"
    /\ call.x = 0
    /\ call.y = GridH
    /\ ~call.ok
    /\ call.err = ErrDimensions
    /\ DOMAIN node = {}

\* (call.x, call.y) lies in [0, Width) x [0, Height)
CallInBounds == call.x \in 0 .. Width - 1 /\ call.y \in 0 .. Height - 1

\* C21: GetNode(x, y) fails with the out-of-bounds error exactly when (x, y)
\* lies outside [0, width) x [0, height); otherwise it returns the one node of
\* the grid whose coordinates are (x, y), the object the grid itself reads, so
\* that a flag written through it is what IsObstacle reports
C21_GetNode ==
    call.op = "Grid.GetNode" =>
        /\ call.err \in {ErrNone, ErrOutOfBounds}
        /\ call.err = ErrOutOfBounds <=> ~CallInBounds
        /\ call.ok <=> call.err = ErrNone
        /\ ~CallInBounds => call.node = NilNode
        /\ CallInBounds =>
              /\ call.node \in DOMAIN node
              /\ node[call.node].X = call.x
              /\ node[call.node].Y = call.y
              /\ \A n \in DOMAIN node : coordinate(node, n) = <<call.x, call.y>> => n = call.node
              /\ GridIsObstacle(Width, Height, node, call.x, call.y) = node[call.node].IsObstacle

\* GetNode returned the node of a cell and the flag written through it is set
C21_Witness ==
    /\ call.op = "Grid.GetNode"
    /\ call.err = ErrNone
    /\ call.node = <<CellsW - 1, 0>>
    /\ edits = 1
    /\ node[call.node].IsObstacle
    /\ GridIsObstacle(Width, Height, node, call.x, call.y)

\* the step is a call of op, one of SetObstacle and ClearObstacle
ObstacleStep(op) == edits' = edits + 1 /\ call'.op = op

\* C22: SetObstacle(x, y) and ClearObstacle(x, y) fail with the out-of-bounds
\* error and leave the grid unchanged when (x, y) is out of bounds; otherwise
\* they set / clear the flag of that one cell and change nothing else; a
\* repeated call changes nothing, and ClearObstacle after SetObstacle leaves
\* the cell a non-obstacle
C22_Obstacles ==
    [][\A op \in {"Grid.SetObstacle", "Grid.ClearObstacle"} :
          ObstacleStep(op) =>
              LET x == call'.x
                  y == call'.y
                  c == <<x, y>>
                  flag == (op = "Grid.SetObstacle")
              IN  /\ UNCHANGED gridVars
                  /\ DOMAIN node' = DOMAIN node
                  /\ IF ~IsValidPosition(Width, Height, x, y)
                     THEN /\ call'.err = ErrOutOfBounds
                          /\ node' = node
                     ELSE /\ call'.err = ErrNone
                          /\ node'[c].IsObstacle = flag
                          /\ node'[c] = [node[c] EXCEPT !.IsObstacle = flag]
                          /\ \A n \in DOMAIN node : n # c => node'[n] = node[n]
                          /\ node[c].IsObstacle = flag => node' = node
                          /\ (op = "Grid.ClearObstacle" /\ call.op = "Grid.SetObstacle"
                                /\ call.x = x /\ call.y = y)
                                => ~node'[c].IsObstacle]_vars

\* ClearObstacle was called on a cell right after SetObstacle on that cell
C22_Witness ==
    /\ call.op = "Grid.ClearObstacle"
    /\ call.err = ErrNone
    /\ call.val = <<TRUE, "Grid.SetObstacle">>
    /\ edits = 2
    /\ ~node[<<call.x, call.y>>].IsObstacle

\* C23: IsObstacle(x, y) returns no error and is true exactly when (x, y) is
\* out of bounds or the cell's obstacle flag is set, whatever SetObstacle and
\* ClearObstacle calls came before; it changes nothing
C23_IsObstacle ==
    [][call'.op = "Grid.IsObstacle" =>
          /\ call'.err = ErrNone
          /\ call'.ok <=> (\/ ~IsValidPosition(Width, Height, call'.x, call'.y)
                           \/ node[<<call'.x, call'.y>>].IsObstacle)
          /\ UNCHANGED <<node, gridVars>>]_vars

\* IsObstacle reported a cell in bounds as an obstacle after two edits
C23_Witness ==
    /\ call.op = "Grid.IsObstacle"
    /\ CallInBounds
    /\ call.ok
    /\ edits = 2
    /\ Cardinality({n \in DOMAIN node : node[n].IsObstacle}) = 1

\* node n of the next state is node n with G, H and F at 0 and no Parent, and
\* with its position, obstacle flag and cost multiplier as they were
ClearedOnly(n) ==
    /\ node'[n].G = 0 /\ node'[n].H = 0 /\ node'[n].F = 0
    /\ node'[n].Parent = NilNode
    /\ node'[n].X = node[n].X /\ node'[n].Y = node[n].Y
    /\ node'[n].IsObstacle = node[n].IsObstacle
    /\ node'[n].Cost = node[n].Cost

\* C24: Grid.Reset sets G, H and F to 0 and Parent to nil on every node of
\* the grid and leaves positions, obstacle flags, cost multipliers, the
\* dimensions and the movement model unchanged; Node.Reset does the same for
\* its one node and leaves the other nodes as they were
C24_Reset ==
    [][/\ (call'.op = "Grid.Reset" /\ edits' = edits)
             => /\ DOMAIN node' = DOMAIN node
                /\ \A n \in DOMAIN node : ClearedOnly(n)
                /\ UNCHANGED gridVars
       /\ (call'.op = "Node.Reset" /\ edits' = edits)
             => /\ DOMAIN node' = DOMAIN node
                /\ ClearedOnly(call'.node)
                /\ \A n \in DOMAIN node : n # call'.node => node'[n] = node[n]
                /\ UNCHANGED gridVars]_vars

\* Grid.Reset was called with search state in two nodes, on a grid whose
\* first node is an obstacle with a cost multiplier of 3
C24_Witness ==
    /\ call.op = "Grid.Reset"
    /\ call.val = <<2>>
    /\ Marked(node) = {}
    /\ node[<<0, 0>>].IsObstacle
    /\ node[<<0, 0>>].Cost = 3

\* the node the last estimate was asked for
EstimateGoal == <<call.x, call.y>>

\* the last call asked heuristic h for an estimate between two free cells of
\* which the second can be reached from the first
EstimateAsked(h) ==
    /\ call.op = h
    /\ call.node \in FreeCells
    /\ EstimateGoal \in ReachableFrom({call.node})

\* the estimate is no more than the minimum summed movement cost of a route
Admissible == call.val[1] <= MinCostFrom(call.node)[EstimateGoal]

\* C25: on a FourWay grid with unit cost multipliers and any obstacles,
\* Manhattan(a, b) is at most the minimum summed movement cost of a route from
\* a to b, for every free a and every b reachable from it
C25_ManhattanAdmissible ==
    (EstimateAsked("Manhattan") /\ MovementType = FourWay) => Admissible

\* Manhattan was asked across an obstacle that makes the route longer than
\* the estimate
C25_Witness ==
    /\ EstimateAsked("Manhattan")
    /\ MovementType = FourWay
    /\ FreeCells # Cells(Width, Height)
    /\ call.val[1] = 2 * StraightBase
    /\ MinCostFrom(call.node)[EstimateGoal] = 4 * StraightBase

\* C26: on a grid of either movement model with unit cost multipliers,
\* Euclidean(a, b) is at most the minimum summed movement cost, by GetCost, of
\* a route from a to b, for every free a and every b reachable from it
C26_EuclideanAdmissible ==
    EstimateAsked("Euclidean") => Admissible

\* C27: on an EightWay grid with unit cost multipliers, DiagonalWithCost(a, b)
\* is at most the minimum summed movement cost, by GetCost, of a route from a
\* to b, for every free a and every b reachable from it
C27_DiagonalWithCostAdmissible ==
    (EstimateAsked("DiagonalWithCost") /\ MovementType = EightWay) => Admissible

\* C28: with the Zero heuristic the main loop extracts the nodes in
\* non-decreasing order of G, and the G of each extracted node is its minimum
\* route cost from the start, on any grid with positive cost multipliers
C28_ZeroIsDijkstra ==
    [][(pc = "loop" /\ ~IsEmpty(openSet) /\ heuristic = "Zero")
          => /\ current # NilNode => node[current].G <= node[current'].G
             /\ node[current'].G = MinCostFrom(start)[current']]_vars

\* the heuristic each supported name stands for
NamedHeuristic ==
    [name \in {"manhattan", "euclidean", "euclidean_squared", "diagonal", "diagonal_cost", "zero"} |->
        CASE name = "manhattan" -> "Manhattan"
          [] name = "euclidean" -> "Euclidean"
          [] name = "euclidean_squared" -> "EuclideanSquared"
          [] name = "diagonal" -> "Diagonal"
          [] name = "diagonal_cost" -> "DiagonalWithCost"
          [] name = "zero" -> "Zero"]

\* C29: GetHeuristicByName returns a function and true exactly for the six
\* names manhattan, euclidean, euclidean_squared, diagonal, diagonal_cost and
\* zero, each with the heuristic of that name, and (nil, false) for any other
\* string; GetSupportedHeuristics returns exactly those six names
C29_ByName ==
    /\ call.op = "GetHeuristicByName" =>
          LET name == call.val[1]
          IN  /\ call.ok <=> name \in DOMAIN NamedHeuristic
              /\ call.ok => heuristic = NamedHeuristic[name]
              /\ ~call.ok => heuristic = NilHeuristic
    /\ call.op = "GetSupportedHeuristics" =>
          /\ Len(call.val) = 6
          /\ {call.val[k] : k \in 1 .. Len(call.val)} = DOMAIN NamedHeuristic

\* the name diagonal_cost was looked up and gave DiagonalWithCost
C29_Witness ==
    /\ call.op = "GetHeuristicByName"
    /\ call.val = <<"diagonal_cost">>
    /\ call.ok
    /\ heuristic = "DiagonalWithCost"

\* the nodes at the coordinates of n, whatever their obstacle flag
SamePlace(n) == {m \in DOMAIN node : coordinate(node, m) = coordinate(node, n)}

\* C30: Manhattan is |dx| + |dy|, Diagonal max(|dx|, |dy|), EuclideanSquared
\* dx^2 + dy^2 and Zero 0, negative coordinates included; every estimate is
\* >= 0, is 0 between equal positions, is the same in both directions, does
\* not depend on obstacle flags, and the call leaves the nodes as they were
C30_Estimates ==
    call.op \in DOMAIN [h \in {NamedHeuristic[k] : k \in DOMAIN NamedHeuristic} |-> h] =>
        LET h == call.op
            a == call.node
            dx == node[a].X - call.x
            dy == node[a].Y - call.y
            adx == IF dx < 0 THEN -dx ELSE dx
            ady == IF dy < 0 THEN -dy ELSE dy
            v == call.val[1]
            goals == {m \in DOMAIN node : coordinate(node, m) = <<call.x, call.y>>}
        IN  /\ h = "Manhattan" => v = (adx + ady) * StraightBase
            /\ h = "Diagonal" => v = (IF adx >= ady THEN adx ELSE ady) * StraightBase
            /\ h = "EuclideanSquared" => v = (dx * dx + dy * dy) * StraightBase
            /\ h = "Zero" => v = 0
            /\ v >= 0
            /\ (dx = 0 /\ dy = 0) => v = 0
            /\ \A a2 \in SamePlace(a), b \in goals :
                  /\ ApplyHeuristic(h, node, a2, b) = v
                  /\ ApplyHeuristic(h, node, b, a2) = v
            /\ node = HeuristicNodes

\* Diagonal was applied to an obstacle node at negative coordinates
C30_Witness ==
    /\ call.op = "Diagonal"
    /\ node[call.node].X = -HeurRange
    /\ node[call.node].Y < 0
    /\ node[call.node].IsObstacle
    /\ call.x = HeurRange
    /\ call.val = <<2 * HeurRange * StraightBase>>

\* C31: at the start of every iteration of FindPath's main loop every entry of
\* the open set has an F at least the F of the entry in its parent slot, also
\* after a neighbor already in the open set had its G and F lowered
C31_HeapRestored == pc = "loop" => HeapOrdered(openSet, node)

\* the positions of the nodes in the open set
OpenPositions(pq, nd) == {coordinate(nd, pq.nodes[k]) : k \in 1 .. Len(pq.nodes)}

\* the nodes at closed positions
ClosedNodes == {n \in DOMAIN node : coordinate(node, n) \in closedSet}

\* C32: within one FindPath run the open set and the closed set are disjoint;
\* an iteration of the main loop keeps every closed position closed and out
\* of the open set, leaves G, H, F and Parent of its node as they were, and
\* extracts a position that was not closed (so none is extracted twice)
C32_ClosedDiscipline ==
    /\ [](OpenPositions(openSet, node) \cap closedSet = {})
    /\ [](DOMAIN openSet.nodeIndex \cap closedSet = {})
    /\ [][(pc = "loop" /\ ~IsEmpty(openSet))
            => /\ closedSet \subseteq closedSet'
               /\ OpenPositions(openSet', node') \cap closedSet = {}
               /\ \A n \in ClosedNodes : node'[n] = node[n]
               /\ coordinate(node, current') \notin closedSet]_vars

\* an iteration has just expanded a node next to two closed cells while other
\* nodes wait in the open set
C32_Witness ==
    /\ pc = "loop"
    /\ current # NilNode
    /\ Cardinality(closedSet) >= 3
    /\ Cardinality({c \in closedSet : OneStep(MovementType, coordinate(node, current), c)}) >= 2
    /\ PQLen(openSet) >= 2

\* the nodes the run has put in the open set or closed so far
Visited == {openSet.nodes[k] : k \in 1 .. Len(openSet.nodes)} \cup ClosedNodes

\* the nodes from n back along the Parent links
Ancestry(n) == parentChain(node, n, <<>>)

\* C33: at every step of a FindPath run the start has no predecessor, every
\* other node in the open or closed set has a predecessor that is closed, and
\* the Parent links from any such node end at the start without a repeat
C33_PredecessorTree ==
    (pc = "loop" \/ pc = "done") =>
        \A n \in Visited :
            /\ n = start => node[n].Parent = NilNode
            /\ n # start => /\ node[n].Parent # NilNode
                            /\ coordinate(node, node[n].Parent) \in closedSet
            /\ Ancestry(n).ends
            /\ Ancestry(n).nodes[Len(Ancestry(n).nodes)] = start

\* a queued node is three links away from the start
C33_Witness ==
    /\ pc = "loop"
    /\ \E k \in 1 .. PQLen(openSet) :
          /\ Len(Ancestry(openSet.nodes[k]).nodes) >= 4
          /\ Ancestry(openSet.nodes[k]).ends

\* C34: at every step of a FindPath run every node in the open or closed set
\* has F = G + H with H the heuristic's estimate from the node to the goal,
\* and the start node has G = 0
C34_ScoresConsistent ==
    (pc = "loop" \/ pc = "done") =>
        \A n \in Visited :
            /\ node[n].H = ApplyHeuristic(heuristic, node, n, goal)
            /\ node[n].F = node[n].G + node[n].H
            /\ n = start => node[n].G = 0

\* under Manhattan a visited node two moves from the start still has a
\* positive estimate to the goal
C34_Witness ==
    /\ pc = "loop"
    /\ heuristic = "Manhattan"
    /\ \E n \in Visited :
          /\ node[n].G >= 2 * StraightBase
          /\ node[n].H >= StraightBase
          /\ node[n].F = node[n].G + node[n].H
    /\ node[start].G = 0

\* the data of node n that a search has no business with
StaticData(nd, n) == <<nd[n].X, nd[n].Y, nd[n].IsObstacle, nd[n].Cost>>

\* a step of a FindPath call: its entry, or a turn of its main loop
FindPathStep == (pc = "idle" /\ pc' # "idle") \/ pc = "loop"

\* C35: no step of a FindPath call, successful or failing, changes a node's
\* position, obstacle flag or cost multiplier, or the grid's width, height
\* or movement model
C35_StaticUntouched ==
    [][FindPathStep
         => /\ DOMAIN node' = DOMAIN node
            /\ \A n \in DOMAIN node : StaticData(node', n) = StaticData(node, n)
            /\ <<Width, Height, MovementType>>' = <<Width, Height, MovementType>>]_vars

\* a call has returned a route over a grid with an obstacle and a cell of
\* cost 3, and the search has written scores into both kinds of node
C35_Witness ==
    /\ pc = "done"
    /\ retErr = ErrNone
    /\ Len(retPath.nodes) >= 3
    /\ \E n \in DOMAIN node : node[n].IsObstacle
    /\ \E n \in DOMAIN node : node[n].Cost = 3 /\ node[n].G > 0 /\ node[n].Parent # NilNode

\* C36: a FindPath call that returns early (invalid input, blocked endpoint,
\* start equal to goal) leaves the open set, the closed set and every node
\* exactly as they were before the call
C36_EarlyReturnFrame ==
    [][(pc = "idle" /\ pc' = "done")
         => /\ \/ retErr' \in {ErrInvalidInput, ErrBlocked}
               \/ retErr' = ErrNone /\ retPath' = PathOf(<<start'>>)
            /\ openSet' = openSet
            /\ closedSet' = closedSet
            /\ node' = node]_vars

\* a call was refused for invalid input while the closed set and the scores
\* of an earlier run were still in place
C36_Witness ==
    /\ pc = "done"
    /\ retErr = ErrInvalidInput
    /\ closedSet # {}
    /\ \E n \in DOMAIN node : node[n].G > 0 /\ node[n].Parent # NilNode

\* FindPath has returned a route
RouteReturned == pc = "done" /\ retErr = ErrNone /\ ~retPath.isNil

\* along the returned route each node's G is its predecessor's G plus the cost
\* of the move, the last node's G is the summed cost, and G rises strictly
GAlongRoute ==
    LET r == retPath.nodes
    IN  /\ \A k \in 1 .. Len(r) - 1 :
              /\ node[r[k + 1]].G = node[r[k]].G + GetCost(node, r[k], r[k + 1])
              /\ node[r[k]].G < node[r[k + 1]].G
        /\ node[r[Len(r)]].G = RouteCost(r, 1)

\* C37 as stated: whenever FindPath returns a route, G along it is the
\* accumulated movement cost, up to the goal, and rises strictly
C37_AsStated == RouteReturned => GAlongRoute

\* C37: whenever FindPath returns a route for a start different from the
\* goal, G of each node of the route is G of the node before it plus the cost
\* of the move, G of the goal is the summed cost of the route, and G rises
\* strictly along the route
C37_RouteCosts == (RouteReturned /\ ~Equals(node, start, goal)) => GAlongRoute

\* a route with a diagonal move has been returned on a grid where an earlier
\* call had run
C37_Witness ==
    /\ RouteReturned
    /\ Len(retPath.nodes) >= 2
    /\ node[goal].G = DiagonalBase
    /\ \E n \in DOMAIN node : n \notin {start, goal} /\ node[n].G > 0

\* node n stands on a free cell of the grid
OnFreeCell(n) ==
    /\ IsValidPosition(Width, Height, node[n].X, node[n].Y)
    /\ ~node[coordinate(node, n)].IsObstacle

\* C38: for any two nodes passed to FindPath, the caller's own included,
\* every position of a returned route is inside the grid and not an obstacle
\* cell, and a start or goal outside the grid yields no route
C38_RouteInsideGrid ==
    RouteReturned =>
        /\ \A k \in 1 .. Len(retPath.nodes) : OnFreeCell(retPath.nodes[k])
        /\ IsValidPosition(Width, Height, node[start].X, node[start].Y)
        /\ IsValidPosition(Width, Height, node[goal].X, node[goal].Y)

\* the node of least F among those queued is at the front
FrontIsMinimum(pq, nd) ==
    \A k \in 1 .. PQLen(pq) : nd[Peek(pq)].F <= nd[pq.nodes[k]].F

\* C39: UpdatePriority(x, y, newF) returns false and changes nothing when no
\* entry is at (x, y); otherwise it returns true, sets that entry's F to newF
\* (lower or higher), leaves Len, the other fields and the other entries as
\* they were, and restores the heap order, so that a minimum-F entry is first
C39_UpdatePriority ==
    [][QueueStep("UpdatePriority")
          => LET e == GetNode(openSet, call'.x, call'.y)
                 newF == call'.val[1]
             IN  IF e = NilNode
                 THEN /\ ~call'.ok
                      /\ openSet' = openSet
                      /\ node' = node
                 ELSE /\ call'.ok
                      /\ node' = [node EXCEPT ![e].F = newF]
                      /\ PQLen(openSet') = PQLen(openSet)
                      /\ {openSet'.nodes[k] : k \in 1 .. Len(openSet'.nodes)}
                            = {openSet.nodes[k] : k \in 1 .. Len(openSet.nodes)}
                      /\ GetNode(openSet', call'.x, call'.y) = e
                      /\ HeapOrdered(openSet', node')
                      /\ FrontIsMinimum(openSet', node')
                      /\ PopNode(openSet', node').node = Peek(openSet')]_vars

\* two nodes were pushed and the F of the front one was then raised from 1 to
\* 3, which moved it behind the other
C39_Witness ==
    /\ calls = 3
    /\ call.op = "UpdatePriority"
    /\ call.ok
    /\ call.val = <<3 * StraightBase>>
    /\ PQLen(openSet) = 2
    /\ LET e == GetNode(openSet, call.x, call.y)
       IN  /\ QueueNode(e).F = StraightBase
           /\ node[e].F = 3 * StraightBase
           /\ Peek(openSet) # e

====
